---- MODULE Spec2Model ----
(***************************************************************************)
(* Gmail fetch-and-cache subsystem of google-api-wrapper:                  *)
(*   - CacheResultItems (gmail_cache.py): the per-batch cache state model  *)
(*   - FileSystemEmailThreadCacheStrategy (gmail_cache.py)                 *)
(*   - GmailWrapper.query_threads (gmail_api.py): the orchestrator         *)
(* The specifications share the variables:                                   *)
(*   SpecBatch       calls on one CacheResultItems batch                   *)
(*   SpecStrategy    thread calls on the filesystem strategy               *)
(*   SpecAttachment  attachment calls on the filesystem strategy           *)
(*   Spec            query_threads, step by step                           *)
(*   SpecEmptyData   query_threads on a cache whose thread.json is null    *)
(*   SpecNoCache     query_threads on the no-cache strategy                *)
(*   SpecConstruct   construction of a strategy, then calls on it          *)
(*   SpecConvert     conversion of the message parts of a thread           *)
(*   SpecMismatch    a query over a message that names another thread      *)
(*   SpecPaths       attachment calls on a directory with every thread     *)
(*   SpecRescan      threads persisted, then a new strategy on the files   *)
(*   SpecMessage     subject and flat part list of one parsed message      *)
(*   SpecBackfill    a query over parts with and without attachment ids    *)
(*   SpecPaging      queries that run on to their end (weak fairness)      *)
(*   SpecFacade      queries through a context holding either strategy     *)
(*   SpecOffline     offline queries over the cached threads               *)
(*   SpecCrash       runs of the strategy, one interrupted while persisting*)
(*   SpecMetrics     add calls on the strategy's CacheActionsPerformed     *)
(*   SpecDrive       DriveApiWrapper operations with per-operation settings*)
(***************************************************************************)
EXTENDS Integers, FiniteSets, Sequences, TLC

VARIABLES
    batch,                       \* the CacheResultItems under construction / in use
    last,                        \* the last call: its name, arguments and outcome
    cached_thread_ids,           \* strategy: thread ids found by the start-up scan
    thread_to_message_data,      \* strategy: thread id -> (message id -> date)
    cached_message_attachments,  \* strategy: set of (thread, message, attachment) markers
    unknown_message_per_thread,  \* strategy: thread id -> live ids missing from the cache
    fs_thread_json,              \* disk: thread id -> payload of threads/<id>/thread.json
    fs_message_data,             \* disk: thread id -> the dicts of threads/<id>/message_data
    fs_attachments,              \* disk: attachment file path -> attachment response
    mailbox,                     \* live transport: thread id -> message ids of the thread
    q,                           \* query_threads: its position and its locals
    calls,                       \* the number of calls made on the strategy so far
    cache_strategy_obj,          \* the strategy: its type, constructor arguments, outcome
    fs_threads_dir,              \* disk: whether <basedir>/<account>/threads exists
    conversion                   \* GmailMessage._convert_message_parts: position and locals

vars == << batch, last, cached_thread_ids, thread_to_message_data,
           cached_message_attachments, unknown_message_per_thread,
           fs_thread_json, fs_message_data, fs_attachments, mailbox, q, calls,
           cache_strategy_obj, fs_threads_dir, conversion >>

strategyVars == << cached_thread_ids, thread_to_message_data,
                   cached_message_attachments, unknown_message_per_thread >>
diskVars == << fs_thread_json, fs_message_data, fs_attachments >>
setupVars == << cache_strategy_obj, fs_threads_dir, conversion >>

(***************************************************************************)
(* Bounds and value spaces                                                 *)
(***************************************************************************)
\* The longest sequence of strategy calls explored.
MaxCalls == 4
\* The thread-list pages the transport serves to one process.
MaxPages == 3
ThreadIds == {1, 2}
\* A thread's id is the id of its first message; a second message has its own id.
SecondMsg(t) == t + Cardinality(ThreadIds)
MsgsOfThread(t) == {t, SecondMsg(t)}
MsgIds == UNION {MsgsOfThread(t) : t \in ThreadIds}
ThreadOfMsg(m) == CHOOSE t \in ThreadIds : m \in MsgsOfThread(t)
AttachmentIds == {"AT1", "AT2"}
\* The ids of a batch driven call by call (the calls act on each id independently).
BatchIds == {1, 2}

\* Python's None, and the opaque payloads, as records of one shape family.
None == [kind |-> "None"]
ThreadPayload(t, msgs) == [kind |-> "thread", id |-> t, messages |-> msgs]
AttachmentResponse(m, a) == [kind |-> "attachment", messageId |-> m, attachmentId |-> a]
\* JsonFileUtils.load_data_from_json_file returns the pair (data, bytes read);
\* _load_data_from_file turns it into the pair (data, metrics).
Loaded(data) == [kind |-> "tuple", data |-> data]
Truthy(d) == d.kind # "None"

NonEmptySubsets(S) == SUBSET S \ {{}}
Payloads == {ThreadPayload(t, msgs) : t \in ThreadIds, msgs \in NonEmptySubsets(MsgIds)}
BatchData == {None, ThreadPayload(1, {1})}

(***************************************************************************)
(* CacheResultItems                                                        *)
(***************************************************************************)
CacheResultItems(item_ids) ==
    [ item_ids                  |-> item_ids,
      not_cached_items          |-> {},
      partially_cached_items    |-> {},
      not_yet_determined_items  |-> {},
      fully_cached_items        |-> << >> ]

add_not_cached(b, item_ids) ==
    [b EXCEPT !.not_cached_items = @ \cup item_ids]

add_partially_cached(b, item_ids) ==
    [b EXCEPT !.partially_cached_items = @ \cup item_ids]

add_not_yet_determined(b, item_ids) ==
    [b EXCEPT !.not_yet_determined_items = @ \cup item_ids]

\* dict assignment per key: a later value replaces an earlier one
\* Mutant: the items are created without their data, as _create_list does.
add_fully_cached_without_data(b, item_ids_with_data) ==
    [b EXCEPT !.fully_cached_items =
        [i \in (DOMAIN @) \cup (DOMAIN item_ids_with_data) |->
            IF i \in DOMAIN item_ids_with_data THEN None ELSE @[i]]]

add_fully_cached(b, item_ids_with_data) ==
    [b EXCEPT !.fully_cached_items =
        [i \in (DOMAIN @) \cup (DOMAIN item_ids_with_data) |->
            IF i \in DOMAIN item_ids_with_data THEN item_ids_with_data[i] ELSE @[i]]]

not_cached_ids(b) == b.not_cached_items
partially_cached_ids(b) == b.partially_cached_items
not_yet_determined_ids(b) == b.not_yet_determined_items
fully_cached_ids(b) == DOMAIN b.fully_cached_items

\* Mutant: no item is ever reported fully cached.
is_fully_cached_never(b, item_id) == FALSE

is_fully_cached(b, item_id) == item_id \in fully_cached_ids(b)

\* "ValueError" when item_id is not in the fully cached bucket
get_data_for_item_raises(b, item_id) == item_id \notin DOMAIN b.fully_cached_items
get_data_for_item(b, item_id) == b.fully_cached_items[item_id]

\* The prior bucket of item_id, or "ValueError" (in neither, or in both).
get_item_cache_status(b, item_id) ==
    LET not_yet_determined == item_id \in not_yet_determined_ids(b)
        not_cached == item_id \in not_cached_ids(b)
    IN  IF ~(not_cached \/ not_yet_determined) THEN "ValueError"
        ELSE IF not_cached /\ not_yet_determined THEN "ValueError"
        ELSE IF not_cached THEN "NOT_CACHED"
        ELSE "CACHE_LEVEL_NOT_DETERMINED"

\* Mutant: the transition forgets to delete the id from its prior bucket.
remove_from_previous_collection_kept(b, item_id, item_state) == b

remove_from_previous_collection(b, item_id, item_state) ==
    IF item_state = "NOT_CACHED"
    THEN [b EXCEPT !.not_cached_items = @ \ {item_id}]
    ELSE IF item_state = "CACHE_LEVEL_NOT_DETERMINED"
    THEN [b EXCEPT !.not_yet_determined_items = @ \ {item_id}]
    ELSE b

mark_raises(b, item_id) == get_item_cache_status(b, item_id) = "ValueError"

\* Mutant: the id is written to its new bucket before its state is checked.
mark_partially_cached_written_first(b, item_id) ==
    LET item_state == get_item_cache_status(b, item_id)
        b1 == [b EXCEPT !.partially_cached_items = @ \cup {item_id}]
    IN  remove_from_previous_collection(b1, item_id, item_state)

\* Mutant: the transition deletes the id from its prior bucket only.
mark_partially_cached_dropped(b, item_id) ==
    LET item_state == get_item_cache_status(b, item_id)
    IN  IF item_state = "ValueError" THEN b
        ELSE remove_from_previous_collection(b, item_id, item_state)

mark_partially_cached(b, item_id) ==
    LET item_state == get_item_cache_status(b, item_id)
        b1 == [b EXCEPT !.partially_cached_items = @ \cup {item_id}]
    IN  IF item_state = "ValueError" THEN b
        ELSE remove_from_previous_collection(b1, item_id, item_state)

mark_fully_cached(b, item_id, item_data) ==
    LET item_state == get_item_cache_status(b, item_id)
        b1 == add_fully_cached(b, item_id :> item_data)
    IN  IF item_state = "ValueError" THEN b
        ELSE remove_from_previous_collection(b1, item_id, item_state)

BucketNames == {"not_cached", "partially_cached", "not_yet_determined", "fully_cached"}

BucketIds(b, name) ==
    CASE name = "not_cached"         -> not_cached_ids(b)
      [] name = "partially_cached"   -> partially_cached_ids(b)
      [] name = "not_yet_determined" -> not_yet_determined_ids(b)
      [] name = "fully_cached"       -> fully_cached_ids(b)

\* The buckets that hold id.
BucketsOf(b, id) == {name \in BucketNames : id \in BucketIds(b, name)}

AllBatchIds(b) == UNION {BucketIds(b, name) : name \in BucketNames}

(***************************************************************************)
(* Values of the variables a specification does not use                    *)
(***************************************************************************)
EmptyBatch == CacheResultItems({})
IdleQuery ==
    [ pc |-> "idle", expect_one_message_per_thread |-> FALSE, limit |-> 0,
      thread_ids |-> << >>, idx |-> 0, has_next |-> FALSE, processed_items |-> 0,
      threads |-> << >>, was_fully_cached |-> FALSE, minimal_requests |-> 0,
      full_requests |-> 0, actualized_with |-> {}, loaded_from_cache |-> FALSE,
      persisted |-> FALSE, thread_resp_full |-> None, empty_bodies |-> << >>,
      skipped_not_fully_cached |-> {}, listed |-> << >>,
      body_data |-> << >>, sanity_check |-> TRUE, handled |-> 0,
      progress |-> [ req_counts |-> [THREADS_LIST |-> 0, THREADS_GET |-> 0,
                                     ATTACHMENTS |-> 0],
                     all_items_count |-> 0 ] ]

NoStrategy ==
    /\ cached_thread_ids = {}
    /\ thread_to_message_data = << >>
    /\ cached_message_attachments = {}
    /\ unknown_message_per_thread = << >>

NoDisk ==
    /\ fs_thread_json = << >>
    /\ fs_message_data = << >>
    /\ fs_attachments = << >>

\* cache_strategy_type.value(output_basedir, project_name, user_email): the
\* object with the arguments it was given and the outcome of the constructor
StrategyTypes == {"NO_CACHE", "FILESYSTEM_CACHE_STRATEGY"}
StrategyObj(type, output_basedir, project_name, user_email, state) ==
    [type |-> type, output_basedir |-> output_basedir, project_name |-> project_name,
     user_email |-> user_email, state |-> state]
IdleConversion ==
    [pc |-> "idle", messages |-> << >>, m |-> 0, p |-> 0, message_body_parts |-> << >>,
     decode_errors |-> << >>, empty_bodies |-> << >>]

\* The filesystem strategy, constructed on an existing threads directory.
FileSystemStrategyInUse ==
    /\ cache_strategy_obj =
          StrategyObj("FILESYSTEM_CACHE_STRATEGY", "given", "given", "given", "built")
    /\ fs_threads_dir = TRUE
    /\ conversion = IdleConversion

(***************************************************************************)
(* SpecBatch: any sequence of calls on one CacheResultItems batch          *)
(***************************************************************************)
\* A call on the batch: its name, its item_id or item_ids argument, its data
\* argument and its outcome.
Call(op, id, ids, data, outcome) ==
    [op |-> op, id |-> id, ids |-> ids, data |-> data, outcome |-> outcome]

BatchFrame == UNCHANGED << strategyVars, diskVars, mailbox, q, calls, setupVars >>

InitBatch ==
    /\ batch = CacheResultItems(BatchIds)
    /\ last = Call("init", 0, {}, None, "ok")
    /\ NoStrategy
    /\ NoDisk
    /\ mailbox = << >>
    /\ q = IdleQuery
    /\ calls = 0
    /\ FileSystemStrategyInUse

AddNotCached ==
    \E ids \in SUBSET BatchIds :
        /\ batch' = add_not_cached(batch, ids)
        /\ last' = Call("add_not_cached", 0, ids, None, "ok")
        /\ BatchFrame

AddPartiallyCached ==
    \E ids \in SUBSET BatchIds :
        /\ batch' = add_partially_cached(batch, ids)
        /\ last' = Call("add_partially_cached", 0, ids, None, "ok")
        /\ BatchFrame

AddNotYetDetermined ==
    \E ids \in SUBSET BatchIds :
        /\ batch' = add_not_yet_determined(batch, ids)
        /\ last' = Call("add_not_yet_determined", 0, ids, None, "ok")
        /\ BatchFrame

AddFullyCached ==
    \E ids \in SUBSET BatchIds : \E d \in BatchData :
        /\ batch' = add_fully_cached(batch, [i \in ids |-> d])
        /\ last' = Call("add_fully_cached", 0, ids, d, "ok")
        /\ BatchFrame

MarkPartiallyCached ==
    \E id \in BatchIds :
        /\ batch' = mark_partially_cached(batch, id)
        /\ last' = Call("mark_partially_cached", id, {}, None,
                        IF mark_raises(batch, id) THEN "ValueError" ELSE "ok")
        /\ BatchFrame

MarkFullyCached ==
    \E id \in BatchIds : \E d \in BatchData :
        /\ batch' = mark_fully_cached(batch, id, d)
        /\ last' = Call("mark_fully_cached", id, {}, d,
                        IF mark_raises(batch, id) THEN "ValueError" ELSE "ok")
        /\ BatchFrame

NextBatch ==
    \/ AddNotCached
    \/ AddPartiallyCached
    \/ AddNotYetDetermined
    \/ AddFullyCached
    \/ MarkPartiallyCached
    \/ MarkFullyCached

SpecBatch == InitBatch /\ [][NextBatch]_vars

(***************************************************************************)
(* C1: after every call on a batch, no id is a key of more than one of the *)
(* four buckets.                                                           *)
(***************************************************************************)
BucketsDisjoint(b) == \A id \in AllBatchIds(b) : Cardinality(BucketsOf(b, id)) <= 1

C1_Disjoint == BucketsDisjoint(batch)

(***************************************************************************)
(* C2: mark_partially_cached(id) / mark_fully_cached(id, data) succeed     *)
(* exactly when id is in exactly one of the not-cached and                 *)
(* not-yet-determined buckets; on success id has left that bucket and is   *)
(* in the target bucket (with the given data); otherwise the call raises.  *)
(***************************************************************************)
InExactlyOnePending(b, id) ==
    (id \in b.not_cached_items) # (id \in b.not_yet_determined_items)

MarkStep(b, b2, l2) ==
    /\ l2.op \in {"mark_partially_cached", "mark_fully_cached"}
    /\ LET id == l2.id IN
        /\ (l2.outcome = "ok") <=> InExactlyOnePending(b, id)
        /\ (l2.outcome = "ValueError") <=> ~InExactlyOnePending(b, id)
        /\ l2.outcome = "ok" =>
            /\ id \notin b2.not_cached_items
            /\ id \notin b2.not_yet_determined_items
            /\ l2.op = "mark_partially_cached" => id \in b2.partially_cached_items
            /\ l2.op = "mark_fully_cached" =>
                /\ id \in DOMAIN b2.fully_cached_items
                /\ b2.fully_cached_items[id] = l2.data

C2_MarkContract ==
    [][(MarkPartiallyCached \/ MarkFullyCached) => MarkStep(batch, batch', last')]_vars

C2_Witness ==
    /\ last.op = "mark_fully_cached"
    /\ last.outcome = "ok"
    /\ last.id \in DOMAIN batch.fully_cached_items
    /\ batch.fully_cached_items[last.id] = last.data
    /\ last.data # None

(***************************************************************************)
(* C20: the union of the keys of the four buckets is the set of the ids    *)
(* passed to the add_* calls so far: it is empty on a new batch, every     *)
(* add_* call extends it by exactly the ids passed, and                    *)
(* mark_partially_cached and mark_fully_cached leave it as it was,         *)
(* whether they succeed or raise.                                          *)
(***************************************************************************)
AddOps == {"add_not_cached", "add_partially_cached", "add_not_yet_determined",
           "add_fully_cached"}
MarkOps == {"mark_partially_cached", "mark_fully_cached"}

UnionStep(b, b2, l2) ==
    /\ l2.op \in AddOps => AllBatchIds(b2) = AllBatchIds(b) \cup l2.ids
    /\ l2.op \in MarkOps => AllBatchIds(b2) = AllBatchIds(b)

C20_UnionOfAdded ==
    /\ AllBatchIds(batch) = {}
    /\ [][UnionStep(batch, batch', last')]_vars

C20_Witness ==
    /\ last.op = "mark_partially_cached"
    /\ last.outcome = "ok"
    /\ AllBatchIds(batch) = BatchIds
    /\ BucketsOf(batch, last.id) = {"partially_cached"}

(***************************************************************************)
(* C21: is_fully_cached(id) is true exactly when id is a key of the fully  *)
(* cached bucket; get_data_for_item(id) raises exactly when it is not;     *)
(* after add_fully_cached({id: d}) or a successful mark_fully_cached(id,   *)
(* d), get_data_for_item(id) returns d.                                    *)
(***************************************************************************)
C21_FullyCachedRoundTrip ==
    /\ \A id \in BatchIds :
          /\ is_fully_cached(batch, id) <=> id \in DOMAIN batch.fully_cached_items
          /\ get_data_for_item_raises(batch, id) <=> ~is_fully_cached(batch, id)
    /\ last.op = "add_fully_cached" =>
          \A id \in last.ids :
              /\ ~get_data_for_item_raises(batch, id)
              /\ get_data_for_item(batch, id) = last.data
    /\ (last.op = "mark_fully_cached" /\ last.outcome = "ok") =>
          /\ ~get_data_for_item_raises(batch, last.id)
          /\ get_data_for_item(batch, last.id) = last.data

C21_Witness ==
    /\ last.op = "add_fully_cached"
    /\ last.data # None
    /\ \E id \in last.ids :
          /\ is_fully_cached(batch, id)
          /\ get_data_for_item(batch, id) = last.data
    /\ \E id \in BatchIds : get_data_for_item_raises(batch, id)

(***************************************************************************)
(* FileSystemEmailThreadCacheStrategy                                      *)
(* The disk: threads/<id>/ exists exactly when thread.json of <id> was     *)
(* written (the directory is made by the call that writes the file).       *)
(***************************************************************************)
thread_dir_exists(thread_id) == thread_id \in DOMAIN fs_thread_json

\* StringUtils.md5_hash, taken as collision-free: the digest names its input.
md5_hash(attachment_id) == << "md5", attachment_id >>

\* Mutant: the file name is made of the message id only.
get_message_attachment_filename_by_message(message_id, attachment_id) ==
    << "message", message_id, "attachment" >>

\* "message_<message id>_attachment_<md5>.txt"
get_message_attachment_filename(message_id, attachment_id) ==
    << "message", message_id, "attachment", md5_hash(attachment_id) >>

\* threads/<thread id>/messages/<file name>
get_attachment_filename(thread_id, message_id, attachment_id) ==
    << thread_id, "messages", get_message_attachment_filename(message_id, attachment_id) >>

\* _get_thread_dir raises when the thread directory does not exist
get_thread_dir_raises(thread_id) == ~thread_dir_exists(thread_id)

\* fill_cache: the scan of threads/ and the load of every message_data file
fill_cache_raises(thread_json, message_data) ==
    \E t \in DOMAIN thread_json : t \notin DOMAIN message_data
fill_cache_thread_ids(thread_json) == DOMAIN thread_json
\* Mutant: only one of the dicts of the file is taken.
load_message_data_from_file_one_only(list_of_message_data) ==
    LET msg_data == CHOOSE d \in list_of_message_data : TRUE
    IN  IF list_of_message_data = {} THEN << >>
        ELSE msg_data.message_id :> msg_data.message_date

\* _load_message_data_from_file: {message_id: message_date} of the dicts read
load_message_data_from_file(list_of_message_data) ==
    [message_id \in {msg_data.message_id : msg_data \in list_of_message_data} |->
        (CHOOSE msg_data \in list_of_message_data :
            msg_data.message_id = message_id).message_date]
fill_cache_message_data(thread_json, message_data) ==
    [t \in DOMAIN thread_json |-> load_message_data_from_file(message_data[t])]

\* The internalDate field of message m in a thread response
InternalDate(m) == << "internalDate", m >>

\* one {message_id, message_date} dict per message of the response
convert_thread_response_to_message_data_dicts(thread_response) ==
    {[message_id |-> msg, message_date |-> InternalDate(msg)] :
        msg \in thread_response.messages}

\* _get_thread_from_file_system: ValueError for an unknown id, an I/O error
\* for a missing thread.json
get_thread_from_file_system_raises(thread_id) ==
    \/ thread_id \notin cached_thread_ids
    \/ thread_id \notin DOMAIN fs_thread_json
get_thread_from_file_system(thread_id) == fs_thread_json[thread_id]

\* Mutant: the one-message fast path is taken whatever the flag says.
get_cache_state_for_threads_always_fast(thread_ids, expect_one_message_per_thread) ==
    LET unknown_thread_ids == thread_ids \ cached_thread_ids
        loadable == {t \in cached_thread_ids : ~get_thread_from_file_system_raises(t)}
    IN  add_fully_cached(
            add_not_cached(CacheResultItems(thread_ids),
                           unknown_thread_ids \cup (cached_thread_ids \ loadable)),
            [t \in loadable |-> get_thread_from_file_system(t)])

\* Mutant: known threads are left to be determined whatever the flag says.
get_cache_state_for_threads_never_fast(thread_ids, expect_one_message_per_thread) ==
    LET unknown_thread_ids == thread_ids \ cached_thread_ids
        known_thread_ids == thread_ids \ unknown_thread_ids
    IN  add_not_cached(
            add_not_yet_determined(CacheResultItems(thread_ids), known_thread_ids),
            unknown_thread_ids)

get_cache_state_for_threads(thread_ids, expect_one_message_per_thread) ==
    LET unknown_thread_ids == thread_ids \ cached_thread_ids
        \* the threads of the store whose thread.json loads; the others are
        \* added to the unknown ones (the except branch)
        loadable == {t \in cached_thread_ids : ~get_thread_from_file_system_raises(t)}
        known_thread_ids == thread_ids \ unknown_thread_ids
    IN  IF expect_one_message_per_thread
        THEN add_fully_cached(
                add_not_cached(CacheResultItems(thread_ids),
                               unknown_thread_ids \cup (cached_thread_ids \ loadable)),
                [t \in loadable |-> get_thread_from_file_system(t)])
        ELSE add_not_cached(
                add_not_yet_determined(CacheResultItems(thread_ids), known_thread_ids),
                unknown_thread_ids)

\* actualize_cache_state
message_ids_for_thread(thread_id) ==
    IF thread_id \in DOMAIN thread_to_message_data
    THEN DOMAIN thread_to_message_data[thread_id] ELSE {}

\* Mutant: the difference is taken the wrong way round (cached minus live).
unknown_messages_reversed(thread_id, message_ids) ==
    message_ids_for_thread(thread_id) \ message_ids

unknown_messages(thread_id, message_ids) ==
    message_ids \ message_ids_for_thread(thread_id)

actualize_cache_state_raises(cache_state, thread_id, message_ids) ==
    IF unknown_messages(thread_id, message_ids) # {}
    THEN mark_raises(cache_state, thread_id)
    ELSE \/ get_thread_from_file_system_raises(thread_id)
         \/ mark_raises(cache_state, thread_id)

actualize_cache_state(cache_state, thread_id, message_ids) ==
    IF actualize_cache_state_raises(cache_state, thread_id, message_ids)
    THEN cache_state
    ELSE IF unknown_messages(thread_id, message_ids) # {}
    THEN mark_partially_cached(cache_state, thread_id)
    ELSE mark_fully_cached(cache_state, thread_id, get_thread_from_file_system(thread_id))

\* unknown_message_per_thread[thread_id] is assigned before anything can raise
actualize_unknown_message_per_thread(thread_id, message_ids) ==
    [t \in DOMAIN unknown_message_per_thread \cup {thread_id} |->
        IF t = thread_id THEN unknown_messages(thread_id, message_ids)
        ELSE unknown_message_per_thread[t]]

\* process_threads: thread.json, then message_data; the in-memory index is
\* not touched
\* Mutant: the thread payload is not written.
process_threads_thread_json_lost(thread_response) == fs_thread_json

process_threads_thread_json(thread_response) ==
    [t \in DOMAIN fs_thread_json \cup {thread_response.id} |->
        IF t = thread_response.id THEN thread_response ELSE fs_thread_json[t]]

process_threads_message_data(thread_response) ==
    [t \in DOMAIN fs_message_data \cup {thread_response.id} |->
        IF t = thread_response.id
        THEN convert_thread_response_to_message_data_dicts(thread_response)
        ELSE fs_message_data[t]]

\* process_attachment_for_message
process_attachment_for_message_raises(thread_id, message_id, attachment_id) ==
    get_thread_dir_raises(thread_id)

\* Mutant: the attachment response is not written.
process_attachment_for_message_lost(thread_id, message_id, attachment_id, attachment_response) ==
    fs_attachments

process_attachment_for_message(thread_id, message_id, attachment_id, attachment_response) ==
    LET file == get_attachment_filename(thread_id, message_id, attachment_id)
    IN  [f \in DOMAIN fs_attachments \cup {file} |->
            IF f = file THEN attachment_response ELSE fs_attachments[f]]

\* get_cache_state_for_message
get_cache_state_for_message_raises(thread_id, message_id, attachment_id) ==
    /\ << thread_id, message_id, attachment_id >> \notin cached_message_attachments
    /\ get_thread_dir_raises(thread_id)

attachment_file_found(thread_id, message_id, attachment_id) ==
    /\ << thread_id, message_id, attachment_id >> \notin cached_message_attachments
    /\ get_attachment_filename(thread_id, message_id, attachment_id) \in DOMAIN fs_attachments

get_cache_state_for_message_markers(thread_id, message_id, attachment_id) ==
    IF attachment_file_found(thread_id, message_id, attachment_id)
    THEN cached_message_attachments \cup {<< thread_id, message_id, attachment_id >>}
    ELSE cached_message_attachments

get_cache_state_for_message(thread_id, message_id, attachment_id) ==
    LET cache_key == << thread_id, message_id, attachment_id >>
        \* the pair _load_data_from_file returns, kept whole
        attachment_data ==
            IF attachment_file_found(thread_id, message_id, attachment_id)
            THEN Loaded(fs_attachments[get_attachment_filename(thread_id, message_id, attachment_id)])
            ELSE None
        markers == get_cache_state_for_message_markers(thread_id, message_id, attachment_id)
        cached == IF cache_key \in markers THEN thread_id :> attachment_data ELSE << >>
        not_cached == IF DOMAIN cached # {} THEN {} ELSE {thread_id}
    IN  add_fully_cached(add_not_cached(CacheResultItems({message_id}), not_cached), cached)

(***************************************************************************)
(* The cache directory left by earlier runs, and the strategy built on it  *)
(***************************************************************************)
\* A persisted thread holds a nonempty part of the thread's messages; its
\* message_data file lists the message ids of its thread.json.
PersistedThreads ==
    UNION {{ThreadPayload(t, msgs) : msgs \in NonEmptySubsets(MsgsOfThread(t))} : t \in ThreadIds}

DiskOfEarlierRuns(ts, tj, md, at) ==
    /\ tj \in [ts -> PersistedThreads]
    /\ \A t \in ts : tj[t].id = t
    /\ md = [t \in ts |-> convert_thread_response_to_message_data_dicts(tj[t])]
    /\ at = << >>

\* CachingStrategy.__init__ / FileSystemEmailThreadCacheStrategy.__init__
StrategyConstructed ==
    /\ ~fill_cache_raises(fs_thread_json, fs_message_data)
    /\ cached_thread_ids = fill_cache_thread_ids(fs_thread_json)
    /\ thread_to_message_data = fill_cache_message_data(fs_thread_json, fs_message_data)
    /\ cached_message_attachments = {}
    /\ unknown_message_per_thread = << >>

(***************************************************************************)
(* SpecStrategy: any sequence of calls on the filesystem strategy          *)
(***************************************************************************)
SCall(op, thread_id, message_id, attachment_id, ids, flag, outcome) ==
    [op |-> op, thread_id |-> thread_id, message_id |-> message_id,
     attachment_id |-> attachment_id, ids |-> ids, flag |-> flag, outcome |-> outcome]

InitStrategy ==
    /\ \E ts \in SUBSET ThreadIds :
          DiskOfEarlierRuns(ts, fs_thread_json, fs_message_data, fs_attachments)
    /\ StrategyConstructed
    /\ batch = EmptyBatch
    /\ last = SCall("init", 0, 0, "", {}, FALSE, "ok")
    /\ mailbox = << >>
    /\ q = IdleQuery
    /\ calls = 0
    /\ FileSystemStrategyInUse

OneMoreCall ==
    /\ calls < MaxCalls
    /\ calls' = calls + 1
    /\ UNCHANGED setupVars

SGetCacheStateForThreads ==
    \E thread_ids \in SUBSET ThreadIds, flag \in BOOLEAN :
        /\ OneMoreCall
        /\ batch' = get_cache_state_for_threads(thread_ids, flag)
        /\ last' = SCall("get_cache_state_for_threads", 0, 0, "", thread_ids, flag, "ok")
        /\ UNCHANGED << strategyVars, diskVars, mailbox, q >>

\* The live message ids of a thread: at least one message.
SActualizeCacheState ==
    \E thread_id \in ThreadIds : \E message_ids \in NonEmptySubsets(MsgsOfThread(thread_id)) :
        /\ OneMoreCall
        /\ batch' = actualize_cache_state(batch, thread_id, message_ids)
        /\ unknown_message_per_thread' =
              actualize_unknown_message_per_thread(thread_id, message_ids)
        /\ last' = SCall("actualize_cache_state", thread_id, 0, "", message_ids, FALSE,
                         IF actualize_cache_state_raises(batch, thread_id, message_ids)
                         THEN "raised" ELSE "ok")
        /\ UNCHANGED << cached_thread_ids, thread_to_message_data,
                        cached_message_attachments, diskVars, mailbox, q >>

SProcessThreads ==
    \E thread_response \in PersistedThreads :
        /\ OneMoreCall
        /\ fs_thread_json' = process_threads_thread_json(thread_response)
        /\ fs_message_data' = process_threads_message_data(thread_response)
        /\ last' = SCall("process_threads", thread_response.id, 0, "",
                         thread_response.messages, FALSE, "ok")
        /\ UNCHANGED << batch, strategyVars, fs_attachments, mailbox, q >>

SProcessAttachmentForMessage ==
    \E thread_id \in ThreadIds, attachment_id \in AttachmentIds :
      \E message_id \in MsgsOfThread(thread_id) :
        /\ OneMoreCall
        /\ IF process_attachment_for_message_raises(thread_id, message_id, attachment_id)
           THEN /\ last' = SCall("process_attachment_for_message", thread_id, message_id,
                                 attachment_id, {}, FALSE, "raised")
                /\ UNCHANGED fs_attachments
           ELSE /\ fs_attachments' =
                      process_attachment_for_message(thread_id, message_id, attachment_id,
                          AttachmentResponse(message_id, attachment_id))
                /\ last' = SCall("process_attachment_for_message", thread_id, message_id,
                                 attachment_id, {}, FALSE, "ok")
        /\ UNCHANGED << batch, strategyVars, fs_thread_json, fs_message_data, mailbox, q >>

SGetCacheStateForMessage ==
    \E thread_id \in ThreadIds, attachment_id \in AttachmentIds :
      \E message_id \in MsgsOfThread(thread_id) :
        /\ OneMoreCall
        /\ IF get_cache_state_for_message_raises(thread_id, message_id, attachment_id)
           THEN /\ last' = SCall("get_cache_state_for_message", thread_id, message_id,
                                 attachment_id, {}, FALSE, "raised")
                /\ UNCHANGED << batch, cached_message_attachments >>
           ELSE /\ batch' = get_cache_state_for_message(thread_id, message_id, attachment_id)
                /\ cached_message_attachments' =
                      get_cache_state_for_message_markers(thread_id, message_id, attachment_id)
                /\ last' = SCall("get_cache_state_for_message", thread_id, message_id,
                                 attachment_id, {}, FALSE, "ok")
        /\ UNCHANGED << cached_thread_ids, thread_to_message_data,
                        unknown_message_per_thread, diskVars, mailbox, q >>

NextStrategy ==
    \/ SGetCacheStateForThreads
    \/ SActualizeCacheState
    \/ SProcessThreads

NextAttachment ==
    \/ SProcessThreads
    \/ SProcessAttachmentForMessage
    \/ SGetCacheStateForMessage

SpecStrategy == InitStrategy /\ [][NextStrategy]_vars

\* SpecAttachment: the attachment calls of the filesystem strategy
SpecAttachment == InitStrategy /\ [][NextAttachment]_vars

(***************************************************************************)
(* C3: actualize_cache_state(batch, T, live_ids), for a thread T the batch *)
(* holds as not-cached or not-yet-determined, moves T to partially-cached  *)
(* when live_ids minus the cached message ids of T is nonempty, and to     *)
(* fully-cached, with the persisted thread payload as data, when it is     *)
(* empty.                                                                  *)
(***************************************************************************)
OnlyIn(b, id, name) == BucketsOf(b, id) = {name}

C3_Step(b, b2, l2) ==
    LET T == l2.thread_id
        live_minus_cached == l2.ids \ message_ids_for_thread(T)
    IN  InExactlyOnePending(b, T) /\ BucketsOf(b, T) \subseteq {"not_cached", "not_yet_determined"} =>
            /\ l2.outcome = "ok"
            /\ live_minus_cached # {} => OnlyIn(b2, T, "partially_cached")
            /\ live_minus_cached = {} =>
                /\ OnlyIn(b2, T, "fully_cached")
                /\ get_data_for_item(b2, T) = fs_thread_json[T]

C3_Actualize == [][SActualizeCacheState => C3_Step(batch, batch', last')]_vars

\* a live list identical to the cached one of two messages: fully cached
C3_Witness ==
    /\ last.op = "actualize_cache_state"
    /\ last.outcome = "ok"
    /\ last.thread_id \in DOMAIN thread_to_message_data
    /\ last.ids = DOMAIN thread_to_message_data[last.thread_id]
    /\ Cardinality(last.ids) = 2
    /\ OnlyIn(batch, last.thread_id, "fully_cached")
    /\ get_data_for_item(batch, last.thread_id) = fs_thread_json[last.thread_id]

\* a live list with one extra id: partially cached
C3_WitnessExtra ==
    /\ last.op = "actualize_cache_state"
    /\ last.outcome = "ok"
    /\ last.thread_id \in DOMAIN thread_to_message_data
    /\ DOMAIN thread_to_message_data[last.thread_id] \subseteq last.ids
    /\ Cardinality(last.ids \ DOMAIN thread_to_message_data[last.thread_id]) = 1
    /\ OnlyIn(batch, last.thread_id, "partially_cached")

(***************************************************************************)
(* C4: with expect_one_message_per_thread = true,                          *)
(* get_cache_state_for_threads classifies every requested id outside the   *)
(* known thread-id set as not-cached and every requested known id as       *)
(* fully-cached with its persisted payload; none is left not-yet-          *)
(* determined or partially-cached.                                         *)
(***************************************************************************)
C4_OneMessageFastPath ==
    (last.op = "get_cache_state_for_threads" /\ last.flag) =>
        \A id \in last.ids :
            /\ id \notin cached_thread_ids => OnlyIn(batch, id, "not_cached")
            /\ id \in cached_thread_ids =>
                /\ OnlyIn(batch, id, "fully_cached")
                /\ get_data_for_item(batch, id) = fs_thread_json[id]

C4_Witness ==
    /\ last.op = "get_cache_state_for_threads"
    /\ last.flag
    /\ \E known \in last.ids, unknown \in last.ids :
        /\ known \in cached_thread_ids
        /\ unknown \notin cached_thread_ids
        /\ OnlyIn(batch, known, "fully_cached")
        /\ OnlyIn(batch, unknown, "not_cached")

(***************************************************************************)
(* C5: with expect_one_message_per_thread = false,                         *)
(* get_cache_state_for_threads classifies every requested unknown id as    *)
(* not-cached and every requested known id as not-yet-determined; the      *)
(* batch it returns holds no fully-cached id, and an id becomes fully      *)
(* cached only by actualize_cache_state called for it.                     *)
(***************************************************************************)
C5_Classified ==
    (last.op = "get_cache_state_for_threads" /\ ~last.flag) =>
        /\ fully_cached_ids(batch) = {}
        /\ \A id \in last.ids :
            /\ id \notin cached_thread_ids => OnlyIn(batch, id, "not_cached")
            /\ id \in cached_thread_ids => OnlyIn(batch, id, "not_yet_determined")

C5_Witness ==
    /\ last.op = "get_cache_state_for_threads"
    /\ ~last.flag
    /\ \E known \in last.ids, unknown \in last.ids :
        /\ known \in cached_thread_ids
        /\ unknown \notin cached_thread_ids
        /\ OnlyIn(batch, known, "not_yet_determined")
        /\ OnlyIn(batch, unknown, "not_cached")

(***************************************************************************)
(* C9: get_cache_state_for_message(T, M, A) reports the attachment of      *)
(* message M as fully cached if and only if (T, M, A) was recorded as      *)
(* persisted (marker set, or attachment file present, and then the lookup  *)
(* sets the marker); otherwise it reports not-cached.                      *)
(***************************************************************************)
RecordedAsPersisted(T, M, A) ==
    \/ << T, M, A >> \in cached_message_attachments
    \/ get_attachment_filename(T, M, A) \in DOMAIN fs_attachments

C9_Step(l2, b2, markers2) ==
    LET T == l2.thread_id
        M == l2.message_id
        A == l2.attachment_id
    IN  /\ l2.outcome = "ok"
        /\ is_fully_cached(b2, M) <=> RecordedAsPersisted(T, M, A)
        /\ ~RecordedAsPersisted(T, M, A) => OnlyIn(b2, M, "not_cached")
        /\ RecordedAsPersisted(T, M, A) => << T, M, A >> \in markers2

C9_AttachmentLookup ==
    [][SGetCacheStateForMessage => C9_Step(last', batch', cached_message_attachments')]_vars

(***************************************************************************)
(* C22: get_cache_state_for_message(T, M, A) for a key (T, M, A) that was  *)
(* never persisted (no marker, no attachment file) does not raise and      *)
(* returns a batch that reports not-cached and nothing fully cached,       *)
(* whether or not the directory of thread T exists.                        *)
(***************************************************************************)
C22_Step(l2, b2) ==
    ~RecordedAsPersisted(l2.thread_id, l2.message_id, l2.attachment_id) =>
        /\ l2.outcome = "ok"
        /\ not_cached_ids(b2) # {}
        /\ fully_cached_ids(b2) = {}

C22_NeverPersistedNotCached ==
    [][SGetCacheStateForMessage => C22_Step(last', batch')]_vars

(***************************************************************************)
(* SpecPaths: attachment calls on a directory in which every thread has    *)
(* been persisted by an earlier run                                        *)
(***************************************************************************)
InitPaths ==
    /\ fs_thread_json = [t \in ThreadIds |-> ThreadPayload(t, MsgsOfThread(t))]
    /\ fs_message_data =
          [t \in ThreadIds |-> convert_thread_response_to_message_data_dicts(fs_thread_json[t])]
    /\ fs_attachments = << >>
    /\ StrategyConstructed
    /\ batch = EmptyBatch
    /\ last = SCall("init", 0, 0, "", {}, FALSE, "ok")
    /\ mailbox = << >>
    /\ q = IdleQuery
    /\ calls = 0
    /\ FileSystemStrategyInUse

NextPaths ==
    \/ SProcessAttachmentForMessage
    \/ SGetCacheStateForMessage

SpecPaths == InitPaths /\ [][NextPaths]_vars

(***************************************************************************)
(* C23: two distinct attachment ids under the same (thread id, message id) *)
(* pair have distinct cache file paths, and so has one attachment id under *)
(* two distinct (thread id, message id) pairs (md5 taken as                *)
(* collision-free); hence every attachment file on disk holds the response *)
(* that was persisted for its own key.                                     *)
(***************************************************************************)
AttachmentKeys == ThreadIds \X MsgIds \X AttachmentIds
FileOfKey(k) == get_attachment_filename(k[1], k[2], k[3])

C23_DistinctPaths ==
    /\ \A k1, k2 \in AttachmentKeys :
          k1 # k2 => FileOfKey(k1) # FileOfKey(k2)
    /\ \A k \in AttachmentKeys :
          FileOfKey(k) \in DOMAIN fs_attachments =>
              fs_attachments[FileOfKey(k)] = AttachmentResponse(k[2], k[3])

C23_Witness ==
    /\ FileOfKey(<< 1, 1, "AT1" >>) \in DOMAIN fs_attachments
    /\ FileOfKey(<< 1, 1, "AT2" >>) \in DOMAIN fs_attachments
    /\ FileOfKey(<< 1, SecondMsg(1), "AT1" >>) \in DOMAIN fs_attachments
    /\ Cardinality(DOMAIN fs_attachments) = 3

(***************************************************************************)
(* SpecRescan: threads are persisted, and a new filesystem strategy is     *)
(* constructed on the same output directory and account                    *)
(***************************************************************************)
\* FileSystemEmailThreadCacheStrategy(...) with the arguments of the earlier
\* one: empty indexes, then fill_cache over the directory as it is now
SRestart ==
    /\ OneMoreCall
    /\ ~fill_cache_raises(fs_thread_json, fs_message_data)
    /\ cached_thread_ids' = fill_cache_thread_ids(fs_thread_json)
    /\ thread_to_message_data' = fill_cache_message_data(fs_thread_json, fs_message_data)
    /\ cached_message_attachments' = {}
    /\ unknown_message_per_thread' = << >>
    /\ last' = SCall("FileSystemEmailThreadCacheStrategy", 0, 0, "", {}, FALSE, "ok")
    /\ UNCHANGED << batch, diskVars, mailbox, q >>

NextRescan ==
    \/ SProcessThreads
    \/ SRestart
    \/ SGetCacheStateForThreads

SpecRescan == InitStrategy /\ [][NextRescan]_vars

(***************************************************************************)
(* C24: persist-then-rescan round trip. process_threads(payload) leaves    *)
(* the payload in thread.json of its thread, where only a later            *)
(* process_threads of the same thread replaces it; a strategy newly        *)
(* constructed on the directory has every persisted thread T in its known  *)
(* thread-id set, thread_to_message_data[T] maps exactly the message ids   *)
(* of the persisted payload to their dates, and reading T from the cache   *)
(* returns the persisted payload.                                          *)
(***************************************************************************)
MessageDatesOf(payload) == [msg \in payload.messages |-> InternalDate(msg)]

PersistedThenRescanned ==
    /\ last.op = "process_threads" =>
          /\ last.thread_id \in DOMAIN fs_thread_json
          /\ fs_thread_json[last.thread_id] = ThreadPayload(last.thread_id, last.ids)
    /\ last.op = "FileSystemEmailThreadCacheStrategy" =>
          \A T \in DOMAIN fs_thread_json :
              /\ T \in cached_thread_ids
              /\ T \in DOMAIN thread_to_message_data
              /\ thread_to_message_data[T] = MessageDatesOf(fs_thread_json[T])
              /\ ~get_thread_from_file_system_raises(T)
              /\ get_thread_from_file_system(T) = fs_thread_json[T]

OnlyProcessThreadsRewrites ==
    \A T \in DOMAIN fs_thread_json :
        /\ T \in DOMAIN fs_thread_json'
        /\ fs_thread_json'[T] # fs_thread_json[T] =>
              (last'.op = "process_threads" /\ last'.thread_id = T)

C24_PersistRescanRoundTrip ==
    /\ []PersistedThenRescanned
    /\ [][OnlyProcessThreadsRewrites]_vars

\* thread 1 was unknown to the first strategy, was persisted with two
\* messages, and the new strategy knows it with both
C24_Witness ==
    /\ last.op = "FileSystemEmailThreadCacheStrategy"
    /\ calls = 2
    /\ 1 \in cached_thread_ids
    /\ 2 \notin cached_thread_ids
    /\ thread_to_message_data[1] = MessageDatesOf(ThreadPayload(1, MsgsOfThread(1)))
    /\ get_thread_from_file_system(1) = ThreadPayload(1, MsgsOfThread(1))

(***************************************************************************)
(* NoCacheStrategy                                                         *)
(***************************************************************************)
nocache_get_cached_threads == {}

\* Mutant: the no-cache strategy declares the thread fully cached.
nocache_actualize_cache_state_marks(cache_state, thread_id, message_ids) ==
    mark_fully_cached(cache_state, thread_id, None)

nocache_actualize_cache_state(cache_state, thread_id, message_ids) == cache_state

nocache_get_cache_state_for_threads(thread_ids, expect_one_message_per_thread) ==
    add_not_cached(CacheResultItems(thread_ids), thread_ids)

nocache_get_cache_state_for_message(thread_id, message_id, attachment_id) ==
    add_not_cached(CacheResultItems({thread_id}), {message_id})

\* process_threads and process_attachment_for_message only log
nocache_process_threads(files, thread_response) == files
nocache_process_attachment_for_message(files, thread_id, message_id, attachment_id, data) ==
    files

(***************************************************************************)
(* ApiFetchingContext: every call is delegated to the strategy it holds;   *)
(* the attachment calls with the orchestrator's (thread, message,          *)
(* attachment) arguments.                                                  *)
(***************************************************************************)
\* Mutant: the context answers process_messages itself and leaves the batch alone.
ctx_process_messages_not_delegated(cache_state, thread_id, message_ids) == cache_state

UsesNoCache == cache_strategy_obj.type = "NO_CACHE"

ctx_get_cache_state_for_threads(thread_ids, expect_one_message_per_thread) ==
    IF UsesNoCache
    THEN nocache_get_cache_state_for_threads(thread_ids, expect_one_message_per_thread)
    ELSE get_cache_state_for_threads(thread_ids, expect_one_message_per_thread)

ctx_process_messages_raises(cache_state, thread_id, message_ids) ==
    IF UsesNoCache THEN FALSE
    ELSE actualize_cache_state_raises(cache_state, thread_id, message_ids)

ctx_process_messages(cache_state, thread_id, message_ids) ==
    IF UsesNoCache
    THEN nocache_actualize_cache_state(cache_state, thread_id, message_ids)
    ELSE actualize_cache_state(cache_state, thread_id, message_ids)

ctx_process_messages_unknown_message_per_thread(thread_id, message_ids) ==
    IF UsesNoCache THEN unknown_message_per_thread
    ELSE actualize_unknown_message_per_thread(thread_id, message_ids)

ctx_process_thread_thread_json(thread_response) ==
    IF UsesNoCache THEN nocache_process_threads(fs_thread_json, thread_response)
    ELSE process_threads_thread_json(thread_response)

ctx_process_thread_message_data(thread_response) ==
    IF UsesNoCache THEN nocache_process_threads(fs_message_data, thread_response)
    ELSE process_threads_message_data(thread_response)

ctx_get_cache_state_for_message_raises(thread_id, message_id, attachment_id) ==
    IF UsesNoCache THEN FALSE
    ELSE get_cache_state_for_message_raises(thread_id, message_id, attachment_id)

ctx_get_cache_state_for_message_markers(thread_id, message_id, attachment_id) ==
    IF UsesNoCache THEN cached_message_attachments
    ELSE get_cache_state_for_message_markers(thread_id, message_id, attachment_id)

ctx_get_cache_state_for_message(thread_id, message_id, attachment_id) ==
    IF UsesNoCache
    THEN nocache_get_cache_state_for_message(thread_id, message_id, attachment_id)
    ELSE get_cache_state_for_message(thread_id, message_id, attachment_id)

ctx_process_attachment_for_message(thread_id, message_id, attachment_id, attachment_response) ==
    IF UsesNoCache
    THEN nocache_process_attachment_for_message(fs_attachments, thread_id, message_id,
                                                attachment_id, attachment_response)
    ELSE process_attachment_for_message(thread_id, message_id, attachment_id,
                                        attachment_response)

(***************************************************************************)
(* The live transport                                                      *)
(***************************************************************************)
\* The mailbox: the live message ids of every thread, the messages that have
\* a part with an empty inline body, and the threadId field every message
\* resource carries.
\* The one attachment id the empty-bodied parts of the mailbox refer to, and
\* the attachmentId of a part body that has none (None, or "").
TheAttachmentId == "AT1"
NoAttachmentId == ""

MailboxWithAttachments(live, empty, thread_id_of, attachment_id_of) ==
    [messages |-> live, empty_body |-> empty, thread_id_of |-> thread_id_of,
     attachment_id_of |-> attachment_id_of]
Mailbox(live, empty, thread_id_of) ==
    MailboxWithAttachments(live, empty, thread_id_of, [m \in MsgIds |-> TheAttachmentId])
OwnThreadIds == [m \in MsgIds |-> ThreadOfMsg(m)]

\* threads.get: the thread with all its live messages
get_thread(thread_id) == ThreadPayload(thread_id, mailbox.messages[thread_id])

\* messages.attachments.get
get_attachment(message_id, attachment_id) == AttachmentResponse(message_id, attachment_id)

RECURSIVE SortedSeq(_)
SortedSeq(S) ==
    IF S = {} THEN << >>
    ELSE LET m == CHOOSE x \in S : \A y \in S : x <= y
         IN  << m >> \o SortedSeq(S \ {m})

\* A page of threads.list: distinct thread ids, at most maxResults of them.
Pages(limit) ==
    {p \in {<< >>} \cup {<< t >> : t \in ThreadIds}
            \cup {<< t, u >> : t \in ThreadIds, u \in ThreadIds} :
        /\ (Len(p) = 2 => p[1] # p[2])
        /\ (limit > 0 => Len(p) <= limit)}

\* limit = None is 0 here: 'if self.limit' is false for both
Limits == {0, 1, 2}
\* sanity_check is left at its default
SanityChecks == {TRUE}

(***************************************************************************)
(* Spec: GmailWrapper.query_threads on the filesystem strategy             *)
(***************************************************************************)
QEvent(op, thread_id, message_id, ids, outcome) ==
    [op |-> op, thread_id |-> thread_id, message_id |-> message_id,
     attachment_id |-> TheAttachmentId, ids |-> ids, flag |-> FALSE, outcome |-> outcome]

Init ==
    /\ \E ts \in SUBSET ThreadIds :
          DiskOfEarlierRuns(ts, fs_thread_json, fs_message_data, fs_attachments)
    /\ StrategyConstructed
    \* every persisted message is still in the mailbox; one message of
    \* thread 1 may have a part with an empty inline body and an attachment id
    /\ \E live \in [ThreadIds -> SUBSET MsgIds], empty \in SUBSET MsgsOfThread(1) :
        /\ \A t \in ThreadIds : live[t] \in NonEmptySubsets(MsgsOfThread(t))
        /\ \A t \in DOMAIN fs_thread_json : fs_thread_json[t].messages \subseteq live[t]
        /\ Cardinality(empty) <= 1
        /\ mailbox = Mailbox(live, empty, OwnThreadIds)
    /\ batch = EmptyBatch
    /\ last = QEvent("init", 0, 0, {}, "ok")
    /\ q = IdleQuery
    /\ calls = 0
    /\ FileSystemStrategyInUse

current_thread_id == q.thread_ids[q.idx]

\* query_threads up to the first list request
StartQuery ==
    /\ q.pc \in {"idle", "done", "raised"}
    /\ calls < MaxPages
    /\ \E expect_one \in BOOLEAN, limit \in Limits, sanity_check \in SanityChecks :
        q' = [IdleQuery EXCEPT !.pc = "list",
                               !.expect_one_message_per_thread = expect_one,
                               !.limit = limit,
                               !.sanity_check = sanity_check]
    /\ batch' = EmptyBatch
    /\ last' = QEvent("query_threads", 0, 0, {}, "ok")
    /\ UNCHANGED << strategyVars, diskVars, mailbox, calls, setupVars >>

\* Mutant: requests for attachments are not counted.
incr_requests_threads_only(progress, req_type) ==
    IF req_type = "ATTACHMENTS" THEN progress
    ELSE [progress EXCEPT !.req_counts[req_type] = @ + 1]

\* Progress.incr_requests, called after each .execute() of the transport
incr_requests(progress, req_type) ==
    [progress EXCEPT !.req_counts[req_type] = @ + 1]

\* Progress.register_new_items, for the threads of a list response
register_new_items(progress, number_of_new_items) ==
    [progress EXCEPT !.all_items_count = @ + number_of_new_items]

\* Mutant: the next-page link is never followed.
AfterPage_first_page_only(qq) ==
    [qq EXCEPT !.pc = "done"]

\* end of _process_threads for a page: list_next, or the end of the query
AfterPage(qq) ==
    [qq EXCEPT !.pc = IF qq.has_next THEN "list" ELSE "done"]

\* the next thread of the page, or the end of the page's loop
AfterThread(qq) ==
    IF qq.idx < Len(qq.thread_ids)
    THEN [qq EXCEPT !.pc = "iter", !.idx = @ + 1]
    ELSE AfterPage(qq)

\* _fetch_threads: request.execute(), _threads_response_handler and the
\* cache-state batch of _process_threads
ListPage ==
    /\ q.pc = "list"
    /\ calls < MaxPages
    /\ calls' = calls + 1
    /\ \E page \in Pages(q.limit), more \in BOOLEAN :
        /\ (calls + 1 >= MaxPages => ~more)
        /\ batch' = ctx_get_cache_state_for_threads({page[i] : i \in 1..Len(page)},
                                                    q.expect_one_message_per_thread)
        /\ LET q1 == [q EXCEPT !.thread_ids = page, !.idx = 1, !.has_next = more,
                               !.listed = @ \o page,
                               !.progress = register_new_items(
                                   incr_requests(@, "THREADS_LIST"), Len(page))]
           IN  q' = IF page = << >> THEN AfterPage(q1) ELSE [q1 EXCEPT !.pc = "iter"]
        /\ last' = QEvent("threads_list", 0, 0, {page[i] : i \in 1..Len(page)}, "ok")
    /\ UNCHANGED << strategyVars, diskVars, mailbox, setupVars >>

\* Mutant: the loop stops one thread early.
is_limit_reached_one_early(limit, processed_items) ==
    IF limit # 0 THEN processed_items >= limit ELSE FALSE

\* Progress.is_limit_reached
is_limit_reached(limit, processed_items) ==
    IF limit # 0 THEN processed_items > limit ELSE FALSE

\* top of the loop body: incr_processed_items and the limit check
Iterate ==
    /\ q.pc = "iter"
    /\ LET processed == q.processed_items + 1
           q1 == [q EXCEPT !.processed_items = processed,
                           !.was_fully_cached = is_fully_cached(batch, current_thread_id),
                           !.minimal_requests = 0, !.full_requests = 0,
                           !.actualized_with = {}, !.loaded_from_cache = FALSE,
                           !.persisted = FALSE, !.thread_resp_full = None]
       IN  IF is_limit_reached(q.limit, processed)
           THEN /\ q' = AfterPage([q EXCEPT !.processed_items = processed,
                                   !.skipped_not_fully_cached = @ \cup
                                       {q.thread_ids[i] : i \in
                                           {j \in q.idx..Len(q.thread_ids) :
                                               ~is_fully_cached(batch, q.thread_ids[j])}}])
                /\ last' = QEvent("limit_reached", current_thread_id, 0, {}, "ok")
           ELSE /\ q' = [q1 EXCEPT !.pc = "lookup"]
                /\ last' = QEvent("process_thread_start", current_thread_id, 0, {}, "ok")
    /\ UNCHANGED << batch, strategyVars, diskVars, mailbox, calls, setupVars >>

\* _request_thread_or_load_from_cache, first half: the minimal lookup and
\* process_messages (actualize_cache_state) for a thread not fully cached
Lookup ==
    /\ q.pc = "lookup"
    /\ LET T == current_thread_id
           message_ids == get_thread(T).messages
       IN  IF ~is_fully_cached(batch, T)
           THEN /\ unknown_message_per_thread' =
                      ctx_process_messages_unknown_message_per_thread(T, message_ids)
                /\ batch' = ctx_process_messages(batch, T, message_ids)
                /\ IF ctx_process_messages_raises(batch, T, message_ids)
                   THEN /\ q' = [q EXCEPT !.pc = "raised", !.minimal_requests = @ + 1,
                                          !.progress = incr_requests(@, "THREADS_GET")]
                        /\ last' = QEvent("threads_get_minimal", T, 0, message_ids, "raised")
                   ELSE /\ q' = [q EXCEPT !.pc = "load", !.minimal_requests = @ + 1,
                                          !.progress = incr_requests(@, "THREADS_GET"),
                                          !.actualized_with = message_ids]
                        /\ last' = QEvent("threads_get_minimal", T, 0, message_ids, "ok")
           ELSE /\ q' = [q EXCEPT !.pc = "load"]
                /\ last' = QEvent("no_lookup", T, 0, {}, "ok")
                /\ UNCHANGED << batch, unknown_message_per_thread >>
    /\ UNCHANGED << cached_thread_ids, thread_to_message_data, cached_message_attachments,
                    diskVars, mailbox, calls, setupVars >>

\* Mutant: data that is None or empty is handed on as it is.
get_item_from_cache_raises_missing_only(cache_state, item_id) ==
    get_data_for_item_raises(cache_state, item_id)

\* _get_item_from_cache raises when the data is None or empty
get_item_from_cache_raises(cache_state, item_id) ==
    \/ get_data_for_item_raises(cache_state, item_id)
    \/ ~Truthy(get_data_for_item(cache_state, item_id))

\* _request_thread_or_load_from_cache, second half: the cache read or the
\* live fetch in the query's format
Load ==
    /\ q.pc = "load"
    /\ LET T == current_thread_id
       IN  IF is_fully_cached(batch, T)
           THEN IF get_item_from_cache_raises(batch, T)
                THEN /\ q' = [q EXCEPT !.pc = "raised"]
                     /\ last' = QEvent("cache_read", T, 0, {}, "raised")
                ELSE /\ q' = [q EXCEPT !.pc = "convert", !.loaded_from_cache = TRUE,
                                       !.thread_resp_full = get_data_for_item(batch, T)]
                     /\ last' = QEvent("cache_read", T, 0, {}, "ok")
           ELSE /\ q' = [q EXCEPT !.pc = "persist", !.full_requests = @ + 1,
                                  !.progress = incr_requests(@, "THREADS_GET"),
                                  !.thread_resp_full = get_thread(T)]
                /\ last' = QEvent("threads_get_full", T, 0, {}, "ok")
    /\ UNCHANGED << batch, strategyVars, diskVars, mailbox, calls, setupVars >>

\* api_fetching_ctx.process_thread for a thread that was fetched live
Persist ==
    /\ q.pc = "persist"
    /\ fs_thread_json' = ctx_process_thread_thread_json(q.thread_resp_full)
    /\ fs_message_data' = ctx_process_thread_message_data(q.thread_resp_full)
    /\ q' = [q EXCEPT !.pc = "convert", !.persisted = TRUE]
    /\ last' = QEvent("process_thread", q.thread_resp_full.id, 0,
                      q.thread_resp_full.messages, "ok")
    /\ UNCHANGED << batch, strategyVars, fs_attachments, mailbox, calls, setupVars >>

\* ApiConversionContext.perform_sanity_check: over the descriptors that are
\* in ctx.empty_bodies when _convert_to_thread_object runs
perform_sanity_check_raises(empty_bodies, thread_id) ==
    \E i \in 1..Len(empty_bodies) : mailbox.thread_id_of[empty_bodies[i]] # thread_id

\* _convert_to_thread_object, then GmailThreads.add: the parts whose inline
\* body is empty are reported to the conversion context
Convert ==
    /\ q.pc = "convert"
    /\ LET T == current_thread_id
           empties == SortedSeq(q.thread_resp_full.messages \cap mailbox.empty_body)
           q1 == [q EXCEPT !.threads = Append(@, T), !.empty_bodies = @ \o empties]
       IN  IF q.sanity_check /\ perform_sanity_check_raises(q.empty_bodies, T)
           THEN /\ q' = [q EXCEPT !.pc = "raised"]
                /\ last' = QEvent("convert", T, 0, q.thread_resp_full.messages, "raised")
           ELSE /\ q' = IF q1.empty_bodies = << >> THEN AfterThread(q1)
                        ELSE [q1 EXCEPT !.pc = "backfill"]
                /\ last' = QEvent("convert", T, 0, q.thread_resp_full.messages, "ok")
    /\ UNCHANGED << batch, strategyVars, diskVars, mailbox, calls, setupVars >>

\* Mutant: a part without an attachment id is resolved like any other.
backfill_returns_early_never(message_id, attachment_id) == FALSE

\* request_attachment_or_load_from_cache: 'if not message_id or not attachment_id'
backfill_returns_early(message_id, attachment_id) ==
    message_id = 0 \/ attachment_id = NoAttachmentId

\* Mutant: the list is not cleared after the loop.
handle_empty_bodies_clear_forgotten(empty_bodies) == empty_bodies

\* handle_empty_bodies: self.empty_bodies.clear() after the loop
handle_empty_bodies_clear(empty_bodies) == << >>

\* handle_empty_bodies, one pass of its loop: request_attachment_or_load_from_cache
\* for the next descriptor; after the last one the list is cleared
Backfill ==
    /\ q.pc = "backfill"
    /\ LET message_id == q.empty_bodies[q.handled + 1]
           thread_id == mailbox.thread_id_of[message_id]
           attachment_id == mailbox.attachment_id_of[message_id]
           \* the end of one call of the callback
           returned(qq) ==
               LET q1 == [qq EXCEPT !.handled = @ + 1]
               IN  IF q1.handled = Len(q1.empty_bodies)
                   THEN AfterThread([q1 EXCEPT
                            !.empty_bodies = handle_empty_bodies_clear(@),
                            !.handled = 0])
                   ELSE q1
           cache_state == ctx_get_cache_state_for_message(thread_id, message_id, attachment_id)
           from_cache == get_data_for_item(cache_state, thread_id)
           from_api == get_attachment(message_id, attachment_id)
           \* descriptor.gmail_msg_body_part.body_data = attachment_response
           resolved(qq, attachment_response) ==
               returned([qq EXCEPT !.body_data = [m \in DOMAIN @ \cup {message_id} |->
                                                     IF m = message_id
                                                     THEN attachment_response ELSE @[m]]])
       IN  IF backfill_returns_early(message_id, attachment_id)
           THEN /\ q' = returned(q)
                /\ last' = QEvent("backfill_skipped", thread_id, message_id, {}, "ok")
                /\ UNCHANGED << cached_message_attachments, fs_attachments >>
           ELSE IF ctx_get_cache_state_for_message_raises(thread_id, message_id, attachment_id)
           THEN /\ q' = [q EXCEPT !.pc = "raised"]
                /\ last' = QEvent("attachment_lookup", thread_id, message_id, {}, "raised")
                /\ UNCHANGED << cached_message_attachments, fs_attachments >>
           ELSE /\ cached_message_attachments' =
                      ctx_get_cache_state_for_message_markers(thread_id, message_id,
                                                              attachment_id)
                /\ IF is_fully_cached(cache_state, message_id)
                   THEN IF get_item_from_cache_raises(cache_state, thread_id)
                        THEN /\ q' = [q EXCEPT !.pc = "raised"]
                             /\ last' = QEvent("attachment_from_cache", thread_id,
                                               message_id, {}, "raised")
                             /\ UNCHANGED fs_attachments
                        ELSE /\ q' = resolved(q, from_cache)
                             /\ last' = QEvent("attachment_from_cache", thread_id,
                                               message_id, {}, "ok")
                             /\ UNCHANGED fs_attachments
                   ELSE /\ fs_attachments' =
                              ctx_process_attachment_for_message(thread_id, message_id,
                                  attachment_id, from_api)
                        /\ q' = resolved([q EXCEPT !.progress =
                                               incr_requests(@, "ATTACHMENTS")], from_api)
                        /\ last' = QEvent("attachments_get", thread_id, message_id, {}, "ok")
    /\ UNCHANGED << batch, cached_thread_ids, thread_to_message_data,
                    unknown_message_per_thread, fs_thread_json, fs_message_data,
                    mailbox, calls, setupVars >>

Next ==
    \/ StartQuery
    \/ ListPage
    \/ Iterate
    \/ Lookup
    \/ Load
    \/ Persist
    \/ Convert
    \/ Backfill

Spec == Init /\ [][Next]_vars

(***************************************************************************)
(* C6: in query_threads with expect_one_message_per_thread = true, a       *)
(* listed thread whose id is in the known thread-id set is served from its *)
(* persisted payload: no live thread-get (minimal or full) is issued for   *)
(* it and it is not written to the cache again.                            *)
(***************************************************************************)
ThreadGetEvents == {"threads_get_minimal", "threads_get_full"}

C6_KnownServedFromCache ==
    q.expect_one_message_per_thread =>
        /\ last.op \in ThreadGetEvents \cup {"process_thread"} =>
              last.thread_id \notin cached_thread_ids
        /\ (last.op = "cache_read" /\ last.thread_id \in cached_thread_ids) =>
              last.outcome = "ok"
        /\ (last.op = "convert" /\ last.thread_id \in cached_thread_ids) =>
              /\ q.loaded_from_cache
              /\ q.thread_resp_full = fs_thread_json[last.thread_id]
              /\ q.minimal_requests = 0
              /\ q.full_requests = 0
              /\ ~q.persisted

C6_Witness ==
    /\ q.expect_one_message_per_thread
    /\ last.op = "convert"
    /\ last.thread_id \in cached_thread_ids
    /\ q.loaded_from_cache
    /\ q.thread_resp_full = fs_thread_json[last.thread_id]

(***************************************************************************)
(* C7, as amended: for every listed thread the loop processes (the limit   *)
(* is not exceeded at its iteration) that is not fully cached in the       *)
(* page's batch, exactly one minimal-format lookup is issued and its       *)
(* message ids are passed to actualize_cache_state; a full-format fetch is *)
(* issued if and only if the thread is still not fully cached afterwards;  *)
(* a fetched payload is persisted before the thread is converted.          *)
(***************************************************************************)
InIteration == q.pc \in {"lookup", "load", "persist", "convert", "backfill"}

C7_PerProcessedThread ==
    InIteration =>
        LET T == current_thread_id IN
        /\ q.pc # "lookup" =>
            /\ q.was_fully_cached => q.minimal_requests = 0
            /\ ~q.was_fully_cached =>
                /\ q.minimal_requests = 1
                /\ q.actualized_with = mailbox.messages[T]
        /\ q.pc \in {"persist", "convert", "backfill"} =>
            /\ q.full_requests <= 1
            /\ (q.full_requests = 1) <=> ~is_fully_cached(batch, T)
        /\ (q.pc \in {"convert", "backfill"} /\ q.full_requests = 1) =>
            /\ q.persisted
            /\ T \in DOMAIN fs_thread_json
            /\ fs_thread_json[T] = q.thread_resp_full
            /\ fs_message_data[T] =
                  convert_thread_response_to_message_data_dicts(q.thread_resp_full)

C7_Witness ==
    /\ q.pc = "convert"
    /\ ~q.was_fully_cached
    /\ q.minimal_requests = 1
    /\ q.full_requests = 1
    /\ q.persisted
    /\ fs_thread_json[current_thread_id] = q.thread_resp_full

\* a not-yet-determined thread found fully cached by the lookup: no full fetch
C7_WitnessNoFetch ==
    /\ q.pc = "convert"
    /\ ~q.was_fully_cached
    /\ q.minimal_requests = 1
    /\ q.full_requests = 0
    /\ q.loaded_from_cache

(***************************************************************************)
(* C7 as stated: for every listed thread that is not fully cached in the   *)
(* page's batch exactly one minimal-format lookup is issued (and the rest  *)
(* as above) - also for the threads listed behind the limit.               *)
(***************************************************************************)
C7_EveryListedThread ==
    /\ C7_PerProcessedThread
    /\ q.skipped_not_fully_cached = {}

(***************************************************************************)
(* C8: after process_threads has persisted thread T during a query, the    *)
(* known thread-id set contains T and thread_to_message_data[T] holds the  *)
(* message ids of the persisted payload, so a later page or query does not *)
(* classify T as not-cached.                                               *)
(***************************************************************************)
C8_WritePathUpdatesIndex ==
    /\ last.op = "process_thread" =>
        /\ last.thread_id \in cached_thread_ids
        /\ last.thread_id \in DOMAIN thread_to_message_data
        /\ DOMAIN thread_to_message_data[last.thread_id] = last.ids
    /\ last.op = "threads_list" =>
        \A T \in last.ids \cap DOMAIN fs_thread_json : T \notin not_cached_ids(batch)

(***************************************************************************)
(* C10: once the attachment of (T, M, A) has been persisted by             *)
(* process_attachment_for_message, every later empty-body resolution for   *)
(* the same (T, M, A), for M = T as for M # T, takes the content from the  *)
(* cache lookup and issues no live attachment request.                     *)
(***************************************************************************)
NextDescriptorPersisted ==
    /\ q.pc = "backfill"
    /\ get_attachment_filename(ThreadOfMsg(q.empty_bodies[q.handled + 1]),
                               q.empty_bodies[q.handled + 1],
                               TheAttachmentId) \in DOMAIN fs_attachments

ThreadWorkEvents ==
    ThreadGetEvents \cup {"cache_read", "process_thread", "convert"}

Min(a, b) == IF a < b THEN a ELSE b

C11_FirstLThreads ==
    q.limit > 0 =>
        /\ Len(q.threads) <= q.limit
        /\ q.threads = SubSeq(q.listed, 1, Len(q.threads))
        /\ q.pc = "done" =>
              q.threads = SubSeq(q.listed, 1, Min(q.limit, Len(q.listed)))
        /\ last.op \in ThreadWorkEvents =>
              /\ q.processed_items <= q.limit
              /\ q.listed[q.processed_items] = last.thread_id

C11_Witness ==
    /\ q.pc = "done"
    /\ q.limit = 2
    /\ Len(q.listed) > 2
    /\ q.threads = SubSeq(q.listed, 1, 2)

(***************************************************************************)
(* C12: once the processed-thread count has exceeded the limit,            *)
(* query_threads issues no further thread-list page request and no other   *)
(* live request.                                                           *)
(***************************************************************************)
LiveRequestEvents == ThreadGetEvents \cup {"threads_list", "attachments_get"}

C12_HardStop ==
    last.op \in LiveRequestEvents => ~is_limit_reached(q.limit, q.processed_items)

(***************************************************************************)
(* SpecEmptyData: query_threads on a cache directory in which the          *)
(* thread.json of at least one known thread holds JSON null                *)
(***************************************************************************)
InitEmptyData ==
    /\ \E ts \in SUBSET ThreadIds :
        \E tj \in [ts -> PersistedThreads], null \in SUBSET ts \ {{}} :
            /\ DiskOfEarlierRuns(ts, tj, fs_message_data, fs_attachments)
            /\ fs_thread_json = [t \in ts |-> IF t \in null THEN None ELSE tj[t]]
            /\ \E live \in [ThreadIds -> SUBSET MsgIds], empty \in SUBSET MsgsOfThread(1) :
                /\ \A t \in ThreadIds : live[t] \in NonEmptySubsets(MsgsOfThread(t))
                /\ \A t \in ts : tj[t].messages \subseteq live[t]
                /\ Cardinality(empty) <= 1
                /\ mailbox = Mailbox(live, empty, OwnThreadIds)
    /\ StrategyConstructed
    /\ batch = EmptyBatch
    /\ last = QEvent("init", 0, 0, {}, "ok")
    /\ q = IdleQuery
    /\ calls = 0
    /\ FileSystemStrategyInUse

SpecEmptyData == InitEmptyData /\ [][Next]_vars

(***************************************************************************)
(* C13: when a thread is in the fully-cached bucket of the batch but its   *)
(* data is null/empty when read, query_threads raises for that query: no   *)
(* full-format fetch is issued for the thread, nothing is written, no      *)
(* thread is added to the result, and the query does nothing more.         *)
(***************************************************************************)
FullyCachedWithoutData ==
    /\ q.pc = "load"
    /\ is_fully_cached(batch, current_thread_id)
    /\ ~Truthy(get_data_for_item(batch, current_thread_id))

C13_EmptyDataRaises ==
    [][/\ FullyCachedWithoutData =>
            /\ q'.pc = "raised"
            /\ last'.op = "cache_read" /\ last'.outcome = "raised"
            /\ q'.threads = q.threads
            /\ q'.full_requests = q.full_requests
            /\ UNCHANGED diskVars
       /\ q.pc = "raised" => last'.op = "query_threads"]_vars

C13_Witness ==
    /\ q.pc = "raised"
    /\ last.op = "cache_read"
    /\ last.outcome = "raised"
    /\ is_fully_cached(batch, last.thread_id)
    /\ q.full_requests = 0

(***************************************************************************)
(* SpecConstruct: cache_strategy_type.value(output_basedir, project_name,  *)
(* user_email), on a cache directory that exists or not                    *)
(***************************************************************************)
\* A constructor argument: None, the empty string, or a usable value.
ArgValues == {"None", "", "given"}
Missing(arg) == arg \in {"None", ""}

NotConstructed == StrategyObj("none", "None", "None", "None", "unbuilt")

\* CachingStrategy.__init__: the two checks, in order
validation_raises(output_basedir, project_name, user_email) ==
    \/ Missing(output_basedir)
    \/ Missing(project_name) \/ Missing(user_email)

\* CommonUtils.convert_email_address_to_dirname: None has no replace()
convert_email_address_to_dirname_raises(user_email) == user_email = "None"

\* FileUtils.join_path is library code: given None for the base directory it
\* either raises or hands on a path
join_path_outcomes(output_basedir) ==
    IF output_basedir = "None" THEN {"TypeError", "path"} ELSE {"path"}

InitConstruct ==
    /\ \/ /\ fs_threads_dir = FALSE
          /\ NoDisk
       \/ /\ fs_threads_dir = TRUE
          /\ \E ts \in SUBSET ThreadIds :
                DiskOfEarlierRuns(ts, fs_thread_json, fs_message_data, fs_attachments)
    /\ NoStrategy
    /\ cache_strategy_obj = NotConstructed
    /\ conversion = IdleConversion
    /\ batch = EmptyBatch
    /\ last = SCall("init", 0, 0, "", {}, FALSE, "ok")
    /\ mailbox = << >>
    /\ q = IdleQuery
    /\ calls = 0

ConstructFrame ==
    UNCHANGED << batch, cached_message_attachments, unknown_message_per_thread,
                 diskVars, mailbox, q, calls, conversion >>

\* NoCacheStrategy(...): CachingStrategy.__init__ with the no-op fill_cache
ConstructNoCache ==
    /\ cache_strategy_obj.state = "unbuilt"
    /\ \E output_basedir \in ArgValues, project_name \in ArgValues, user_email \in ArgValues :
        /\ cache_strategy_obj' =
              StrategyObj("NO_CACHE", output_basedir, project_name, user_email,
                  IF validation_raises(output_basedir, project_name, user_email)
                  THEN "ValueError" ELSE "built")
        /\ last' = SCall("NoCacheStrategy", 0, 0, "", {}, FALSE,
                  IF validation_raises(output_basedir, project_name, user_email)
                  THEN "ValueError" ELSE "ok")
    /\ UNCHANGED << cached_thread_ids, thread_to_message_data, fs_threads_dir >>
    /\ ConstructFrame

\* FileSystemEmailThreadCacheStrategy(...): the directory names are derived
\* and the threads directory is created, then CachingStrategy.__init__
\* checks the arguments and calls fill_cache
ConstructFileSystem ==
    /\ cache_strategy_obj.state = "unbuilt"
    /\ \E output_basedir \in ArgValues, project_name \in ArgValues, user_email \in ArgValues :
        \E joined \in join_path_outcomes(output_basedir) :
          LET outcome ==
                IF convert_email_address_to_dirname_raises(user_email) THEN "AttributeError"
                ELSE IF joined = "TypeError" THEN "TypeError"
                ELSE IF validation_raises(output_basedir, project_name, user_email)
                     THEN "ValueError"
                ELSE IF fill_cache_raises(fs_thread_json, fs_message_data) THEN "IOError"
                ELSE "built"
              dir_ensured == outcome \notin {"AttributeError", "TypeError"}
          IN  /\ cache_strategy_obj' =
                    StrategyObj("FILESYSTEM_CACHE_STRATEGY", output_basedir, project_name,
                                user_email, outcome)
              /\ fs_threads_dir' = (fs_threads_dir \/ dir_ensured)
              /\ IF outcome = "built"
                 THEN /\ cached_thread_ids' = fill_cache_thread_ids(fs_thread_json)
                      /\ thread_to_message_data' =
                            fill_cache_message_data(fs_thread_json, fs_message_data)
                 ELSE UNCHANGED << cached_thread_ids, thread_to_message_data >>
              /\ last' = SCall("FileSystemEmailThreadCacheStrategy", 0, 0, "", {}, FALSE,
                               IF outcome = "built" THEN "ok" ELSE outcome)
    /\ ConstructFrame

NextConstruct ==
    \/ ConstructNoCache
    \/ ConstructFileSystem

SpecConstruct == InitConstruct /\ [][NextConstruct]_vars

(***************************************************************************)
(* C14: constructing a strategy (filesystem or no-cache) with a missing    *)
(* output directory, project name or user email raises before any disk     *)
(* activity: no directory is created and no file is read.                  *)
(***************************************************************************)
ConstructionErrors == {"ValueError", "AttributeError", "TypeError"}

C14_EagerConfigurationError ==
    [][validation_raises(cache_strategy_obj'.output_basedir,
                         cache_strategy_obj'.project_name,
                         cache_strategy_obj'.user_email) =>
          /\ cache_strategy_obj'.state \in ConstructionErrors
          /\ UNCHANGED << fs_threads_dir, diskVars >>]_vars

(***************************************************************************)
(* SpecNoCache: query_threads on the no-cache strategy, whatever earlier   *)
(* runs left in the cache directory                                        *)
(***************************************************************************)
InitNoCache ==
    \* nothing on disk, or thread 1 persisted by an earlier run with a cache
    /\ \E ts \in SUBSET {1} :
          DiskOfEarlierRuns(ts, fs_thread_json, fs_message_data, fs_attachments)
    /\ NoStrategy
    /\ \E live \in [ThreadIds -> SUBSET MsgIds], empty \in SUBSET MsgsOfThread(1) :
        /\ \A t \in ThreadIds : live[t] \in NonEmptySubsets(MsgsOfThread(t))
        /\ \A t \in DOMAIN fs_thread_json : fs_thread_json[t].messages \subseteq live[t]
        /\ Cardinality(empty) <= 1
        /\ mailbox = Mailbox(live, empty, OwnThreadIds)
    /\ batch = EmptyBatch
    /\ last = QEvent("init", 0, 0, {}, "ok")
    /\ q = IdleQuery
    /\ calls = 0
    /\ cache_strategy_obj = StrategyObj("NO_CACHE", "given", "given", "given", "built")
    /\ fs_threads_dir = TRUE
    /\ conversion = IdleConversion

SpecNoCache == InitNoCache /\ [][Next]_vars

(***************************************************************************)
(* C15: under the no-cache strategy get_cache_state_for_threads reports    *)
(* every requested id as not-cached, get_cache_state_for_message never     *)
(* reports an item fully cached, actualize_cache_state leaves the batch    *)
(* unchanged, process_threads and process_attachment_for_message persist   *)
(* nothing, get_cached_threads is empty, and query_threads obtains every   *)
(* thread it processes by a full-format live fetch.                        *)
(***************************************************************************)
C15_BatchAllNotCached ==
    /\ q.pc # "idle" =>
        /\ not_cached_ids(batch) = {q.thread_ids[i] : i \in 1..Len(q.thread_ids)}
        /\ partially_cached_ids(batch) = {}
        /\ not_yet_determined_ids(batch) = {}
        /\ fully_cached_ids(batch) = {}
    /\ last.op \notin {"cache_read", "attachment_from_cache", "no_lookup"}
    /\ \A T \in ThreadIds, M \in MsgIds, A \in AttachmentIds :
          ~is_fully_cached(nocache_get_cache_state_for_message(T, M, A), M)
    /\ nocache_get_cached_threads = {}
    /\ last.op = "convert" =>
        /\ q.full_requests = 1
        /\ ~q.loaded_from_cache
        /\ q.thread_resp_full = get_thread(last.thread_id)

BackfillEvents == {"attachments_get", "attachment_from_cache"}

InitMismatch ==
    /\ \E ts \in SUBSET ThreadIds :
          DiskOfEarlierRuns(ts, fs_thread_json, fs_message_data, fs_attachments)
    /\ StrategyConstructed
    /\ \E live \in [ThreadIds -> SUBSET MsgIds], foreign \in MsgsOfThread(1) :
        /\ \A t \in ThreadIds : live[t] \in NonEmptySubsets(MsgsOfThread(t))
        /\ \A t \in DOMAIN fs_thread_json : fs_thread_json[t].messages \subseteq live[t]
        /\ mailbox = Mailbox(live, {foreign},
                             [m \in MsgIds |-> IF m = foreign THEN 2 ELSE ThreadOfMsg(m)])
    /\ batch = EmptyBatch
    /\ last = QEvent("init", 0, 0, {}, "ok")
    /\ q = IdleQuery
    /\ calls = 0
    /\ FileSystemStrategyInUse

SpecMismatch == InitMismatch /\ [][Next]_vars

(***************************************************************************)
(* C17: with sanity checking enabled, when the conversion of thread T      *)
(* collects an empty-body descriptor whose message carries a thread id     *)
(* different from T, query_threads raises a thread-id mismatch error for   *)
(* that thread.                                                            *)
(***************************************************************************)
CollectsForeignDescriptor ==
    /\ last.op = "convert"
    /\ q.sanity_check
    /\ \E m \in last.ids \cap mailbox.empty_body :
          mailbox.thread_id_of[m] # last.thread_id

C17_MismatchRaises ==
    CollectsForeignDescriptor => (last.outcome = "raised" /\ q.pc = "raised")

(***************************************************************************)
(* SpecConvert: GmailThreads.add for one thread: GmailMessage.from_message *)
(* for every message, _convert_message_parts over its parts                *)
(***************************************************************************)
\* The inline body data of a part: none, valid base64, a string that
\* b64decode rejects for its padding, a string with a non-ASCII character.
ValidData == "aGVsbG8="
BadPaddingData == "not-base64!!!"
NonAsciiData == "caf<e-acute>"
BodyData == {"", ValidData, BadPaddingData, NonAsciiData}

PartCounts == {1, 2}
MessageCounts == {1, 2}
PartLists == UNION {[1..n -> BodyData] : n \in PartCounts}
MessageLists == UNION {[1..n -> PartLists] : n \in MessageCounts}

\* base64.b64decode on a str: "ok", or the exception it raises
b64decode_outcome(encoded) ==
    CASE encoded = BadPaddingData -> "binascii.Error"
      [] encoded = NonAsciiData   -> "ValueError"
      [] OTHER                    -> "ok"

\* Decoder.decode_base64: str() of the decoded bytes
decode_base64(encoded) == << "str", "b64decode", encoded >>

\* GmailMessage._decode_base64_encoded_body raises what is not binascii.Error
decode_base64_encoded_body_raises(data) ==
    data # "" /\ b64decode_outcome(data) \notin {"ok", "binascii.Error"}

\* Mutant: an empty body is flagged as a failed decoding as well.
decode_base64_encoded_body_empty_fails(data) ==
    IF data = ""
    THEN [body |-> << "str", "literal", "" >>, successful |-> FALSE, empty |-> TRUE]
    ELSE IF b64decode_outcome(data) = "ok"
         THEN [body |-> << "str", "b64decode", data >>, successful |-> TRUE, empty |-> FALSE]
         ELSE [body |-> << "str", "literal", data >>, successful |-> FALSE, empty |-> FALSE]

\* GmailMessage._decode_base64_encoded_body: (body, successful, empty)
decode_base64_encoded_body(data) ==
    IF data = ""
    THEN [body |-> << "str", "literal", "" >>, successful |-> TRUE, empty |-> TRUE]
    ELSE IF b64decode_outcome(data) = "ok"
         THEN [body |-> decode_base64(data), successful |-> TRUE, empty |-> FALSE]
         ELSE [body |-> << "str", "literal", data >>, successful |-> FALSE, empty |-> FALSE]

\* A GmailMessageBodyPart, with the (message, part) position it was made for
GmailMessageBodyPart(m, p, body_data) == [m |-> m, p |-> p, body_data |-> body_data]

InitConvert ==
    /\ \E messages \in MessageLists :
          conversion = [IdleConversion EXCEPT !.pc = "convert", !.messages = messages,
                                              !.m = 1, !.p = 1]
    /\ batch = EmptyBatch
    /\ last = QEvent("init", 0, 0, {}, "ok")
    /\ NoStrategy
    /\ NoDisk
    /\ mailbox = << >>
    /\ q = IdleQuery
    /\ calls = 0
    /\ cache_strategy_obj = NotConstructed
    /\ fs_threads_dir = FALSE

\* one pass of the loop of _convert_message_parts
ConvertMessagePart ==
    /\ conversion.pc = "convert"
    /\ LET m == conversion.m
           p == conversion.p
           data == conversion.messages[m][p]
           decoded == decode_base64_encoded_body(data)
           gmail_msg_body_part == GmailMessageBodyPart(m, p, decoded.body)
           c1 == [conversion EXCEPT
                    !.message_body_parts = Append(@, gmail_msg_body_part),
                    !.decode_errors = IF ~decoded.successful
                                      THEN Append(@, gmail_msg_body_part) ELSE @,
                    !.empty_bodies = IF decoded.empty
                                     THEN Append(@, gmail_msg_body_part) ELSE @]
       IN  IF decode_base64_encoded_body_raises(data)
           THEN conversion' = [conversion EXCEPT !.pc = "raised"]
           ELSE IF p < Len(conversion.messages[m])
                THEN conversion' = [c1 EXCEPT !.p = p + 1]
                ELSE IF m < Len(conversion.messages)
                     THEN conversion' = [c1 EXCEPT !.m = m + 1, !.p = 1]
                     ELSE conversion' = [c1 EXCEPT !.pc = "done"]
    /\ UNCHANGED << batch, last, strategyVars, diskVars, mailbox, q, calls,
                    cache_strategy_obj, fs_threads_dir >>

NextConvert == ConvertMessagePart

SpecConvert == InitConvert /\ [][NextConvert]_vars

\* The parts of the thread, as (message, part) positions, and those the
\* conversion has reached.
AllParts ==
    UNION {{<< m, p >> : p \in DOMAIN conversion.messages[m]} :
              m \in DOMAIN conversion.messages}
DataOf(part) == conversion.messages[part.m][part.p]
Range(seq) == {seq[i] : i \in DOMAIN seq}
Converted == Range(conversion.message_body_parts)

(***************************************************************************)
(* C18: a part whose inline body data fails base64 decoding gives a body   *)
(* part holding the original undecoded data, is recorded as a decode       *)
(* error, and raises nothing: the rest of the parts and messages are       *)
(* converted too.                                                          *)
(***************************************************************************)
FailsDecoding(data) == data # "" /\ b64decode_outcome(data) # "ok"

C18_DecodeErrorKept ==
    /\ conversion.pc # "raised"
    /\ \A part \in Converted :
          FailsDecoding(DataOf(part)) =>
              /\ part.body_data = << "str", "literal", DataOf(part) >>
              /\ part \in Range(conversion.decode_errors)
    /\ conversion.pc = "done" =>
          {<< part.m, part.p >> : part \in Converted} = AllParts

(***************************************************************************)
(* C19: a part whose inline body data is empty gives a body part with      *)
(* empty content and is recorded in the empty-body list and not in the     *)
(* decode-error list; no part is in both lists.                            *)
(***************************************************************************)
C19_EmptyBodyFlagged ==
    /\ \A part \in Converted :
          DataOf(part) = "" =>
              /\ part.body_data = << "str", "literal", "" >>
              /\ part \in Range(conversion.empty_bodies)
              /\ part \notin Range(conversion.decode_errors)
    /\ Range(conversion.empty_bodies) \cap Range(conversion.decode_errors) = {}
    /\ \A part \in Range(conversion.empty_bodies) : DataOf(part) = ""

C19_Witness ==
    /\ conversion.pc = "done"
    /\ \E part \in Converted :
          /\ DataOf(part) = ""
          /\ part \in Range(conversion.empty_bodies)
    /\ conversion.decode_errors # << >>

(***************************************************************************)
(* SpecMessage: Message(...) for one parsed payload part: __post_init__    *)
(* derives the subject and the flat list of message parts                  *)
(***************************************************************************)
Str(value) == [kind |-> "str", value |-> value]
Header(name, value) == [name |-> name, value |-> value]

\* The shape of a part tree: the sequence of the shapes of its child parts.
ChildCounts == {0, 1, 2}
LeafShapes == {<< >>}
ShallowShapes == UNION {[1..n -> LeafShapes] : n \in ChildCounts}
PartShapes == UNION {[1..n -> ShallowShapes] : n \in ChildCounts}

\* The headers of a payload part as _parse_headers leaves them: a missing or
\* empty value is None.
HeaderValues == {Str("A"), Str("B"), None}
Headers ==
    {Header("Subject", v) : v \in HeaderValues} \cup
    {Header("subject", Str("lower")), Header("From", Str("sender"))}
HeaderLists == UNION {[1..n -> Headers] : n \in {0, 1, 2}}
NestedHeaderLists == {<< >>, << Header("Subject", Str("nested")) >>}

\* parse_message_part: the MessagePart of a part and, recursively, of its
\* child parts; a part is named by its path from the root.
RECURSIVE MessagePart(_, _, _)
MessagePart(id, headers, shape) ==
    [id |-> id, headers |-> headers,
     parts |-> [i \in 1..Len(shape) |-> MessagePart(Append(id, i), headers, shape[i])]]

PayloadParts ==
    {[MessagePart(<< >>, nested, shape) EXCEPT !.headers = headers] :
        headers \in HeaderLists, nested \in NestedHeaderLists, shape \in PartShapes}

\* Mutant: the scan does not stop at the first match; the last one wins.
get_subject_from_headers_last(payload) ==
    LET named == {i \in DOMAIN payload.headers : payload.headers[i].name = "Subject"}
    IN  IF named = {} THEN None
        ELSE payload.headers[CHOOSE i \in named : \A j \in named : i >= j].value

\* Message._get_subject_from_headers
get_subject_from_headers(payload) ==
    LET named == {i \in DOMAIN payload.headers : payload.headers[i].name = "Subject"}
    IN  IF named = {} THEN None
        ELSE payload.headers[CHOOSE i \in named : \A j \in named : i <= j].value

\* Mutant: the parts of the part itself are taken, not theirs in turn.
get_all_msg_parts_one_level(msg_part) == Append(msg_part.parts, msg_part)

\* Message._get_all_msg_parts_recursive
RECURSIVE get_all_msg_parts_recursive(_)
RECURSIVE parts_of_children(_, _)
parts_of_children(parts, n) ==
    IF n = 0 THEN << >>
    ELSE parts_of_children(parts, n - 1) \o get_all_msg_parts_recursive(parts[n])
get_all_msg_parts_recursive(msg_part) ==
    Append(parts_of_children(msg_part.parts, Len(msg_part.parts)), msg_part)

InitMessage ==
    /\ \E payload \in PayloadParts :
          conversion = [pc |-> "parse", payload |-> payload, subject |-> None,
                        message_parts |-> << >>]
    /\ batch = EmptyBatch
    /\ last = QEvent("init", 0, 0, {}, "ok")
    /\ NoStrategy
    /\ NoDisk
    /\ mailbox = << >>
    /\ q = IdleQuery
    /\ calls = 0
    /\ cache_strategy_obj = NotConstructed
    /\ fs_threads_dir = FALSE

\* Message.__post_init__
MessagePostInit ==
    /\ conversion.pc = "parse"
    /\ conversion' = [conversion EXCEPT
                        !.pc = "parsed",
                        !.subject = get_subject_from_headers(conversion.payload),
                        !.message_parts = get_all_msg_parts_recursive(conversion.payload)]
    /\ UNCHANGED << batch, last, strategyVars, diskVars, mailbox, q, calls,
                    cache_strategy_obj, fs_threads_dir >>

NextMessage == MessagePostInit

SpecMessage == InitMessage /\ [][NextMessage]_vars

(***************************************************************************)
(* C25: message_parts holds every node of the part tree exactly once; the  *)
(* descendants of a node precede it, the nodes under an earlier child of   *)
(* a node precede those under a later child, and the root is last.         *)
(***************************************************************************)
\* The ids (paths) of the nodes of a part tree
RECURSIVE PartIds(_)
PartIds(msg_part) ==
    {msg_part.id} \cup UNION {PartIds(msg_part.parts[i]) : i \in DOMAIN msg_part.parts}

IsProperPrefix(a, b) == Len(a) < Len(b) /\ SubSeq(b, 1, Len(a)) = a

\* a and b part ways at some child index, a under the earlier child
UnderEarlierChild(a, b) ==
    \E k \in 1..Min(Len(a), Len(b)) :
        /\ SubSeq(a, 1, k - 1) = SubSeq(b, 1, k - 1)
        /\ a[k] < b[k]

PostOrder(lst, payload) ==
    LET ids == [i \in DOMAIN lst |-> lst[i].id]
    IN  /\ Range(ids) = PartIds(payload)
        /\ Len(lst) = Cardinality(PartIds(payload))
        /\ \A i, j \in DOMAIN lst :
              /\ IsProperPrefix(ids[j], ids[i]) => i < j
              /\ UnderEarlierChild(ids[i], ids[j]) => i < j
        /\ lst[Len(lst)] = payload

C25_PartsInPostOrder ==
    conversion.pc = "parsed" => PostOrder(conversion.message_parts, conversion.payload)

\* a root with two children that have two children each: seven parts
C25_Witness ==
    /\ conversion.pc = "parsed"
    /\ Len(conversion.message_parts) = 7
    /\ [i \in 1..7 |-> conversion.message_parts[i].id] =
          << << 1, 1 >>, << 1, 2 >>, << 1 >>, << 2, 1 >>, << 2, 2 >>, << 2 >>, << >> >>

(***************************************************************************)
(* C26: the subject is the value of the first header named exactly         *)
(* "Subject" among the headers of the top-level payload part; headers of   *)
(* nested parts are not consulted; without such a header it is null.       *)
(***************************************************************************)
SubjectHeaders(payload) ==
    {i \in DOMAIN payload.headers : payload.headers[i].name = "Subject"}

C26_SubjectFromTopLevel ==
    conversion.pc = "parsed" =>
        LET headers == conversion.payload.headers
        IN  /\ SubjectHeaders(conversion.payload) = {} => conversion.subject = None
            /\ \A i \in SubjectHeaders(conversion.payload) :
                  (\A j \in SubjectHeaders(conversion.payload) : i <= j) =>
                      conversion.subject = headers[i].value

\* two Subject headers at the top level, another one in a nested part
C26_Witness ==
    /\ conversion.pc = "parsed"
    /\ conversion.payload.headers = << Header("Subject", Str("A")), Header("Subject", Str("B")) >>
    /\ Len(conversion.payload.parts) > 0
    /\ conversion.payload.parts[1].headers = << Header("Subject", Str("nested")) >>
    /\ conversion.subject = Str("A")

\* no Subject header at the top level, one in a nested part
C26_WitnessNone ==
    /\ conversion.pc = "parsed"
    /\ conversion.payload.headers = << Header("subject", Str("lower")) >>
    /\ Len(conversion.payload.parts) > 0
    /\ conversion.payload.parts[1].headers = << Header("Subject", Str("nested")) >>
    /\ conversion.subject = None

(***************************************************************************)
(* SpecBackfill: query_threads on an empty cache directory, over a mailbox *)
(* in which one or two messages have a part with an empty inline body,     *)
(* with or without an attachment id                                        *)
(***************************************************************************)
InitBackfill ==
    /\ DiskOfEarlierRuns({}, fs_thread_json, fs_message_data, fs_attachments)
    /\ StrategyConstructed
    /\ \E empty \in SUBSET MsgIds : \E without \in SUBSET empty :
        /\ Cardinality(empty) \in {1, 2}
        /\ mailbox = MailboxWithAttachments(
                        [t \in ThreadIds |-> MsgsOfThread(t)], empty, OwnThreadIds,
                        [m \in MsgIds |-> IF m \in without THEN NoAttachmentId
                                          ELSE TheAttachmentId])
    /\ batch = EmptyBatch
    /\ last = QEvent("init", 0, 0, {}, "ok")
    /\ q = IdleQuery
    /\ calls = 0
    /\ FileSystemStrategyInUse

SpecBackfill == InitBackfill /\ [][Next]_vars

\* The descriptor the next call of the callback is for
NextDescriptor == q.empty_bodies[q.handled + 1]

(***************************************************************************)
(* C27: for a flagged part without an attachment id the backfill makes no  *)
(* cache lookup and no live attachment request, writes nothing, leaves the *)
(* body as it is and does not raise; the loop goes on with the next        *)
(* flagged part.                                                           *)
(***************************************************************************)
NextHasNoAttachmentId ==
    /\ q.pc = "backfill"
    /\ mailbox.attachment_id_of[NextDescriptor] = NoAttachmentId

C27_NoAttachmentIdSkipped ==
    [][NextHasNoAttachmentId =>
          /\ last'.op = "backfill_skipped"
          /\ last'.outcome = "ok"
          /\ q'.pc # "raised"
          /\ q'.body_data = q.body_data
          /\ NextDescriptor \notin DOMAIN q'.body_data
          /\ UNCHANGED << strategyVars, diskVars >>
          /\ q.handled + 1 < Len(q.empty_bodies) =>
                (q'.pc = "backfill" /\ q'.handled = q.handled + 1)]_vars

\* the first of two flagged parts was skipped, the second is up next
C27_Witness ==
    /\ last.op = "backfill_skipped"
    /\ q.pc = "backfill"
    /\ q.handled = 1
    /\ Len(q.empty_bodies) = 2
    /\ mailbox.attachment_id_of[q.empty_bodies[2]] = TheAttachmentId
    /\ fs_attachments = << >>

(***************************************************************************)
(* C29: the parts flagged during the conversion of a thread are passed to  *)
(* the backfill callback one by one, each once, before the loop goes on to *)
(* the next thread; outside handle_empty_bodies the empty-body list is      *)
(* empty, so no descriptor of one thread is there when another thread is   *)
(* converted.                                                               *)
(***************************************************************************)
CallbackEvents ==
    {"backfill_skipped", "attachment_lookup", "attachment_from_cache", "attachments_get"}

EmptyBodiesOfCurrentThread ==
    /\ q.pc \notin {"backfill", "raised"} =>
          (q.empty_bodies = << >> /\ q.handled = 0)
    /\ q.pc = "backfill" =>
          /\ q.handled < Len(q.empty_bodies)
          /\ q.empty_bodies =
                SortedSeq(q.thread_resp_full.messages \cap mailbox.empty_body)
          /\ q.thread_resp_full.id = current_thread_id

OneCallbackPerDescriptor ==
    q.pc = "backfill" =>
        /\ last'.op \in CallbackEvents
        /\ last'.message_id = NextDescriptor
        /\ q'.pc = "backfill" =>
              /\ q'.handled = q.handled + 1
              /\ q'.empty_bodies = q.empty_bodies
              /\ q'.idx = q.idx /\ q'.thread_ids = q.thread_ids
        /\ q'.pc \notin {"backfill", "raised"} =>
              q.handled + 1 = Len(q.empty_bodies)

C29_EachFlaggedPartOnce ==
    /\ []EmptyBodiesOfCurrentThread
    /\ [][OneCallbackPerDescriptor]_vars

\* the second of the two flagged parts of a thread has just been handled
\* and the loop has moved on
C29_Witness ==
    /\ last.op \in CallbackEvents
    /\ last.outcome = "ok"
    /\ last.message_id = SecondMsg(last.thread_id)
    /\ mailbox.empty_body = MsgsOfThread(last.thread_id)
    /\ q.pc \notin {"backfill", "raised"}
    /\ q.empty_bodies = << >>

(***************************************************************************)
(* SpecPaging: query_threads, every started query running on to its end:   *)
(* the steps of a query are the steps of one sequential call; only the     *)
(* start of the next query is up to the caller                             *)
(***************************************************************************)
InitPaging ==
    /\ \E ts \in SUBSET {1} :
          DiskOfEarlierRuns(ts, fs_thread_json, fs_message_data, fs_attachments)
    /\ StrategyConstructed
    /\ \E empty \in SUBSET {1} :
          mailbox = Mailbox([t \in ThreadIds |-> MsgsOfThread(t)], empty, OwnThreadIds)
    /\ batch = EmptyBatch
    /\ last = QEvent("init", 0, 0, {}, "ok")
    /\ q = IdleQuery
    /\ calls = 0
    /\ FileSystemStrategyInUse

QueryStep ==
    \/ ListPage
    \/ Iterate
    \/ Lookup
    \/ Load
    \/ Persist
    \/ Convert
    \/ Backfill

SpecPaging == InitPaging /\ [][Next]_vars /\ WF_vars(QueryStep)

(***************************************************************************)
(* C28: over a finite chain of pages query_threads makes one thread-list   *)
(* request per page, with one cache-state batch for the ids of that page,  *)
(* follows the next-page link until it is absent, processes the threads in *)
(* page and list order, and terminates; with no limit set the threads it   *)
(* returns are the listed threads in that order.                           *)
(***************************************************************************)
IsPrefix(s, t) == Len(s) <= Len(t) /\ SubSeq(t, 1, Len(s)) = s

InListOrder ==
    /\ IsPrefix(q.threads, q.listed)
    /\ q.pc = "done" =>
          /\ ~q.has_next
          /\ q.limit = 0 => q.threads = q.listed

OneRequestAndBatchPerPage ==
    /\ ListPage \/ StartQuery \/ batch'.item_ids = batch.item_ids
    /\ ListPage =>
          /\ last'.op = "threads_list"
          /\ batch'.item_ids = last'.ids
          /\ \E page \in Pages(q.limit) :
                /\ last'.ids = Range(page)
                /\ q'.listed = q.listed \o page
                /\ q'.thread_ids = page
    /\ q'.listed # q.listed => (ListPage \/ StartQuery)
    /\ (q.pc # "list" /\ q'.pc = "list") => (StartQuery \/ q.has_next)

QueryTerminates == (q.pc = "list") ~> (q.pc \in {"done", "raised"})

C28_PagesFollowedToTheEnd ==
    /\ []InListOrder
    /\ [][OneRequestAndBatchPerPage]_vars
    /\ QueryTerminates

\* a query without limit over two pages of two threads each
C28_Witness ==
    /\ q.pc = "done"
    /\ q.limit = 0
    /\ calls = 2
    /\ Len(q.listed) = 4
    /\ q.threads = q.listed
    /\ last.op # "threads_list"

(***************************************************************************)
(* C30: the request counters of a query are exact: each counter goes up by *)
(* one in exactly the steps that execute a request of its type (thread     *)
(* list pages, live thread gets in minimal or full format, live attachment *)
(* gets) and starts at zero, and the processed-thread count never exceeds  *)
(* the registered thread count.                                            *)
(***************************************************************************)
RequestTypes == {"THREADS_LIST", "THREADS_GET", "ATTACHMENTS"}

\* the events of the steps in which the transport executes a request
ExecutedBy(req_type) ==
    CASE req_type = "THREADS_LIST" -> {"threads_list"}
      [] req_type = "THREADS_GET" -> {"threads_get_minimal", "threads_get_full"}
      [] req_type = "ATTACHMENTS" -> {"attachments_get"}

CountersFollowRequests ==
    IF StartQuery
    THEN \A rt \in RequestTypes : q'.progress.req_counts[rt] = 0
    ELSE \A rt \in RequestTypes :
            q'.progress.req_counts[rt] =
                q.progress.req_counts[rt] +
                    (IF last'.op \in ExecutedBy(rt) THEN 1 ELSE 0)

ProcessedWithinRegistered ==
    /\ q.processed_items <= q.progress.all_items_count
    /\ q.progress.all_items_count = Len(q.listed)
    /\ q.pc = "idle" => \A rt \in RequestTypes : q.progress.req_counts[rt] = 0

C30_CountersExact == []ProcessedWithinRegistered /\ [][CountersFollowRequests]_vars

\* a finished query that made requests of all three types
C30_Witness ==
    /\ q.pc = "done"
    /\ q.progress.req_counts["THREADS_LIST"] = 2
    /\ q.progress.req_counts["THREADS_GET"] >= 3
    /\ q.progress.req_counts["ATTACHMENTS"] >= 1
    /\ q.processed_items = q.progress.all_items_count

(***************************************************************************)
(* SpecFacade: queries through an ApiFetchingContext that holds either     *)
(* strategy                                                                *)
(***************************************************************************)
InitFacade == InitPaging \/ InitNoCache

SpecFacade == InitFacade /\ [][Next]_vars

(***************************************************************************)
(* C31: ApiFetchingContext only delegates: every call the orchestrator     *)
(* makes through it (get_cache_state_for_threads, process_messages,        *)
(* process_thread, get_cache_state_for_message,                            *)
(* process_attachment_for_message) has the result and the effect of the    *)
(* operation of the strategy it holds, and the strategy reference is the   *)
(* only thing it keeps, unchanged by the calls.                            *)
(***************************************************************************)
HoldsFileSystemStrategy == cache_strategy_obj.type = "FILESYSTEM_CACHE_STRATEGY"

AllNotCached(item_ids, ids) ==
    [item_ids |-> item_ids, not_cached_items |-> ids, partially_cached_items |-> {},
     not_yet_determined_items |-> {}, fully_cached_items |-> << >>]

FacadeDelegates ==
    /\ cache_strategy_obj' = cache_strategy_obj
    /\ last'.op = "threads_list" /\ ListPage =>
          batch' = IF HoldsFileSystemStrategy
                   THEN get_cache_state_for_threads(last'.ids, q.expect_one_message_per_thread)
                   ELSE AllNotCached(last'.ids, last'.ids)
    /\ last'.op = "threads_get_minimal" /\ Lookup =>
          IF HoldsFileSystemStrategy
          THEN /\ batch' = actualize_cache_state(batch, last'.thread_id, last'.ids)
               /\ unknown_message_per_thread' =
                     actualize_unknown_message_per_thread(last'.thread_id, last'.ids)
               /\ (last'.outcome = "raised") =
                     actualize_cache_state_raises(batch, last'.thread_id, last'.ids)
          ELSE /\ UNCHANGED << batch, unknown_message_per_thread >>
               /\ last'.outcome = "ok"
    /\ last'.op = "process_thread" /\ Persist =>
          IF HoldsFileSystemStrategy
          THEN /\ fs_thread_json' = process_threads_thread_json(q.thread_resp_full)
               /\ fs_message_data' = process_threads_message_data(q.thread_resp_full)
          ELSE UNCHANGED << fs_thread_json, fs_message_data >>
    /\ last'.op \in {"attachment_lookup", "attachment_from_cache", "attachments_get"}
       /\ Backfill =>
          LET T == last'.thread_id
              M == last'.message_id
              A == mailbox.attachment_id_of[M]
          IN  IF HoldsFileSystemStrategy
              THEN /\ (last'.op = "attachment_lookup") =
                         get_cache_state_for_message_raises(T, M, A)
                   /\ last'.op # "attachment_lookup" =>
                         /\ cached_message_attachments' =
                               get_cache_state_for_message_markers(T, M, A)
                         /\ (last'.op = "attachment_from_cache") =
                               is_fully_cached(get_cache_state_for_message(T, M, A), M)
                   /\ last'.op = "attachments_get" =>
                         fs_attachments' =
                             process_attachment_for_message(T, M, A, get_attachment(M, A))
              ELSE /\ last'.op = "attachments_get"
                   /\ UNCHANGED << cached_message_attachments, fs_attachments >>
    /\ ~HoldsFileSystemStrategy => UNCHANGED << strategyVars, diskVars >>

C31_WitnessNoCache ==
    /\ UsesNoCache
    /\ last.op = "attachments_get"
    /\ q.threads # << >>

(***************************************************************************)
(* C32: every batch returned by get_cache_state_for_threads or             *)
(* get_cache_state_for_message partitions its requested ids: each id of    *)
(* item_ids is in exactly one bucket and no bucket holds an id outside     *)
(* item_ids.                                                               *)
(***************************************************************************)
PartitionsItemIds(b) ==
    /\ \A id \in b.item_ids : Cardinality(BucketsOf(b, id)) = 1
    /\ AllBatchIds(b) \subseteq b.item_ids

C32_BatchPartitionsRequest ==
    (/\ last.op \in {"get_cache_state_for_threads", "get_cache_state_for_message"}
     /\ last.outcome = "ok") => PartitionsItemIds(batch)

(***************************************************************************)
(* SpecOffline: query_threads(offline=True) on the filesystem strategy     *)
(***************************************************************************)
\* FileSystemEmailThreadCacheStrategy.get_cached_threads
get_cached_threads == DOMAIN thread_to_message_data

ctx_get_cached_threads ==
    IF UsesNoCache THEN nocache_get_cached_threads ELSE get_cached_threads

\* query_threads, the offline branch up to the loop of _process_threads: the
\* cached thread ids are registered and get their cache-state batch
StartOfflineQuery ==
    /\ q.pc \in {"idle", "done", "raised"}
    /\ \E expect_one \in BOOLEAN, limit \in Limits, sanity_check \in SanityChecks :
        LET thread_ids == SortedSeq(ctx_get_cached_threads)
            q1 == [IdleQuery EXCEPT !.expect_one_message_per_thread = expect_one,
                                    !.limit = limit,
                                    !.sanity_check = sanity_check,
                                    !.thread_ids = thread_ids, !.idx = 1,
                                    !.listed = thread_ids,
                                    !.progress = register_new_items(@, Len(thread_ids))]
        IN  /\ batch' = ctx_get_cache_state_for_threads(Range(thread_ids), expect_one)
            /\ q' = IF thread_ids = << >> THEN AfterPage(q1) ELSE [q1 EXCEPT !.pc = "iter"]
            /\ last' = QEvent("query_threads_offline", 0, 0, Range(thread_ids), "ok")
    /\ UNCHANGED << strategyVars, diskVars, mailbox, calls, setupVars >>

NextOffline ==
    \/ StartOfflineQuery
    \/ Iterate
    \/ Lookup
    \/ Load
    \/ Persist
    \/ Convert
    \/ Backfill

SpecOffline == Init /\ [][NextOffline]_vars

(***************************************************************************)
(* C33: query_threads(offline=True) issues no live request (no thread      *)
(* list, thread get or attachment get), whatever                           *)
(* expect_one_message_per_thread is, and processes exactly the thread ids  *)
(* get_cached_threads returned.                                            *)
(***************************************************************************)
LiveRequests ==
    {"threads_list", "threads_get_minimal", "threads_get_full", "attachments_get"}

C33_OfflineIssuesNoRequest ==
    /\ last.op \notin LiveRequests
    /\ \A rt \in RequestTypes : q.progress.req_counts[rt] = 0
    /\ (q.pc = "done" /\ q.limit = 0) => q.threads = q.listed

(***************************************************************************)
(* C34: for a key (T, M, A) whose attachment is persisted, every           *)
(* get_cache_state_for_message(T, M, A) of the process, the first and any  *)
(* later one, returns a fully-cached item that carries the persisted       *)
(* attachment data, which the orchestrator can read without raising.       *)
(***************************************************************************)
LookupOfPersistedKey ==
    /\ last.op = "get_cache_state_for_message"
    /\ last.outcome = "ok"
    /\ get_attachment_filename(last.thread_id, last.message_id, last.attachment_id)
          \in DOMAIN fs_attachments

C34_RepeatedLookupStable ==
    LookupOfPersistedKey =>
        /\ fully_cached_ids(batch) # {}
        /\ \A id \in fully_cached_ids(batch) :
              /\ ~get_item_from_cache_raises(batch, id)
              /\ get_data_for_item(batch, id) =
                    Loaded(fs_attachments[get_attachment_filename(
                        last.thread_id, last.message_id, last.attachment_id)])

MarkRaised(l2) == l2.op \in MarkOps /\ l2.outcome = "ValueError"

MarkRaisesExactlyWhen ==
    (MarkPartiallyCached \/ MarkFullyCached) =>
        (MarkRaised(last') <=>
            (last'.id \in not_cached_ids(batch)) = (last'.id \in not_yet_determined_ids(batch)))

C36_RaisingMarkChangesNothing ==
    [][/\ MarkRaisesExactlyWhen
       /\ ((MarkPartiallyCached \/ MarkFullyCached) /\ MarkRaised(last')) =>
              \A name \in BucketNames : BucketIds(batch', name) = BucketIds(batch, name)
       /\ ((MarkPartiallyCached \/ MarkFullyCached) /\ MarkRaised(last')) =>
              batch' = batch]_vars

\* a mark call has raised for an id that is in both buckets
C36_Witness ==
    /\ MarkRaised(last)
    /\ last.id \in not_cached_ids(batch) \cap not_yet_determined_ids(batch)
    /\ last.id \notin partially_cached_ids(batch)

\* a mark call has raised for an id that is in neither bucket
C36_WitnessNeither ==
    /\ MarkRaised(last)
    /\ last.id \notin not_cached_ids(batch) \cup not_yet_determined_ids(batch)
    /\ batch.item_ids # {}

(***************************************************************************)
(* SpecCrash: runs over one cache directory, a run possibly interrupted    *)
(* inside process_threads; the next run constructs the strategy again      *)
(***************************************************************************)
StrategyAlive == last.outcome \notin {"interrupted", "raised"}

\* process_threads cut off after _write_thread_data_to_file: thread.json is
\* written, the message-data file of the call is not
SProcessThreadsInterrupted ==
    \E thread_response \in PersistedThreads :
        /\ StrategyAlive
        /\ OneMoreCall
        /\ fs_thread_json' = process_threads_thread_json(thread_response)
        /\ last' = SCall("process_threads", thread_response.id, 0, "",
                         thread_response.messages, FALSE, "interrupted")
        /\ UNCHANGED << batch, strategyVars, fs_message_data, fs_attachments, mailbox, q >>

\* FileSystemEmailThreadCacheStrategy(...) of the next run: fill_cache over
\* the directory as it is
SConstruct ==
    /\ OneMoreCall
    /\ IF fill_cache_raises(fs_thread_json, fs_message_data)
       THEN /\ cached_thread_ids' = {}
            /\ thread_to_message_data' = << >>
            /\ last' = SCall("FileSystemEmailThreadCacheStrategy", 0, 0, "", {}, FALSE,
                             "raised")
       ELSE /\ cached_thread_ids' = fill_cache_thread_ids(fs_thread_json)
            /\ thread_to_message_data' =
                  fill_cache_message_data(fs_thread_json, fs_message_data)
            /\ last' = SCall("FileSystemEmailThreadCacheStrategy", 0, 0, "", {}, FALSE, "ok")
    /\ cached_message_attachments' = {}
    /\ unknown_message_per_thread' = << >>
    /\ UNCHANGED << batch, diskVars, mailbox, q >>

NextCrash ==
    \/ StrategyAlive /\ SProcessThreads
    \/ SProcessThreadsInterrupted
    \/ SConstruct

SpecCrash == InitStrategy /\ [][NextCrash]_vars

(***************************************************************************)
(* C37: constructing the filesystem strategy succeeds on any directory an  *)
(* earlier run left behind, a run interrupted inside process_threads       *)
(* between the two writes included: every thread directory the scan finds  *)
(* has a loadable index or is treated as not cached.                       *)
(***************************************************************************)
C37_ConstructSucceeds ==
    last.op = "FileSystemEmailThreadCacheStrategy" =>
        /\ last.outcome = "ok"
        /\ \A t \in DOMAIN fs_thread_json :
              t \in DOMAIN fs_message_data \/ t \notin cached_thread_ids

(***************************************************************************)
(* SpecMetrics: any sequence of add calls on the CacheActionsPerformed of  *)
(* a filesystem strategy                                                   *)
(***************************************************************************)
CacheMetrics(items_written, bytes_written, items_read, bytes_read) ==
    [items_written |-> items_written, bytes_written |-> bytes_written,
     items_read |-> items_read, bytes_read |-> bytes_read]

create_for_read(items_read, bytes_read) == CacheMetrics(0, 0, items_read, bytes_read)
create_for_write(items_written, bytes_written) ==
    CacheMetrics(items_written, bytes_written, 0, 0)
create_empty == CacheMetrics(0, 0, 0, 0)

\* CacheMetrics._combine
combine_with(self, other) ==
    CacheMetrics(self.items_written + other.items_written,
                 self.bytes_written + other.bytes_written,
                 self.items_read + other.items_read,
                 self.bytes_read + other.bytes_read)

\* CacheMetrics.combine(*actions), a static method: the first of its
\* arguments combined with the others in turn
RECURSIVE combine(_)
combine(actions) ==
    IF Len(actions) = 1 THEN actions[1]
    ELSE combine_with(combine(SubSeq(actions, 1, Len(actions) - 1)), actions[Len(actions)])

\* the metrics the strategy adds: one file read, one file written, and the
\* two files of process_threads combined
MetricsAdded ==
    {create_for_read(1, 2), create_for_write(1, 1),
     combine(<< create_for_write(1, 2), create_for_write(1, 1) >>)}

MetricsRequestTypes == {"THREADS_GET", "MESSAGES"}

\* CacheActionsPerformed.__init__: two defaultdicts of empty metrics
CacheActionsPerformed ==
    [latest |-> [rt \in MetricsRequestTypes |-> create_empty],
     sum |-> [rt \in MetricsRequestTypes |-> create_empty]]

\* CacheActionsPerformed.add: self._sum[request_type].combine(metrics) calls
\* the static method through the instance, so its arguments are (metrics,)
cache_actions_add(self, request_type, metrics) ==
    [self EXCEPT !.latest[request_type] = metrics,
                 !.sum[request_type] = combine(<< metrics >>)]

InitMetrics ==
    /\ cache_strategy_obj =
          [type |-> "FILESYSTEM_CACHE_STRATEGY", state |-> "built",
           cache_actions_performed |-> CacheActionsPerformed]
    /\ last = [op |-> "init", added |-> [rt \in MetricsRequestTypes |-> << >>]]
    /\ batch = EmptyBatch
    /\ NoStrategy
    /\ NoDisk
    /\ mailbox = << >>
    /\ q = IdleQuery
    /\ calls = 0
    /\ fs_threads_dir = TRUE
    /\ conversion = IdleConversion

MetricsAdd ==
    /\ calls < MaxCalls
    /\ calls' = calls + 1
    /\ \E request_type \in MetricsRequestTypes, metrics \in MetricsAdded :
        /\ cache_strategy_obj' =
              [cache_strategy_obj EXCEPT !.cache_actions_performed =
                  cache_actions_add(@, request_type, metrics)]
        /\ last' = [op |-> "add",
                    added |-> [last.added EXCEPT ![request_type] = Append(@, metrics)]]
    /\ UNCHANGED << batch, strategyVars, diskVars, mailbox, q, fs_threads_dir, conversion >>

NextMetrics == MetricsAdd

SpecMetrics == InitMetrics /\ [][NextMetrics]_vars

(***************************************************************************)
(* C38: after any sequence of add(request_type, metrics) calls the stored  *)
(* sum of each request type is the component-wise sum of all metrics added *)
(* for that type, and the stored latest value is the last metrics added    *)
(* for it.                                                                 *)
(***************************************************************************)
RECURSIVE SumOf(_)
SumOf(added) ==
    IF added = << >> THEN create_empty
    ELSE combine_with(SumOf(SubSeq(added, 1, Len(added) - 1)), added[Len(added)])

C38_CumulativeSum ==
    \A rt \in MetricsRequestTypes :
        /\ cache_strategy_obj.cache_actions_performed.sum[rt] = SumOf(last.added[rt])
        /\ last.added[rt] # << >> =>
              cache_strategy_obj.cache_actions_performed.latest[rt] =
                  last.added[rt][Len(last.added[rt])]

(***************************************************************************)
(* SpecDrive: DriveApiWrapper operations decorated with                    *)
(* capture_single_operation_settings. The wrapper object is kept in q:     *)
(* its three settings fields, the operation in progress and the op_settings*)
(* it was called with.                                                     *)
(***************************************************************************)
NoValue == "None"
FileFindMode == {"ALL", "JUST_UNTRASHED"}
DuplicateFileWriteResolutionMode == {"REMOVE_AND_CREATE", "ADD_NEW_REVISION", "FAIL_FAST"}
SearchResultHandlingMode == {"SINGLE_FILE_PER_SEARCH_RESULT"}

Settings(file_find_mode, duplicate_file_handling_mode, search_result_handling_mode) ==
    [kind |-> "settings", file_find_mode |-> file_find_mode,
     duplicate_file_handling_mode |-> duplicate_file_handling_mode,
     search_result_handling_mode |-> search_result_handling_mode]

DriveApiWrapperSessionSettings ==
    {Settings(f, d, s) : f \in FileFindMode, d \in DuplicateFileWriteResolutionMode,
                         s \in SearchResultHandlingMode}

\* every field of the per-operation settings may be None
DriveApiWrapperSingleOperationSettings ==
    {Settings(f, d, s) : f \in FileFindMode \cup {NoValue},
                         d \in DuplicateFileWriteResolutionMode \cup {NoValue},
                         s \in SearchResultHandlingMode}

\* _get_setting_property: the per-operation value when there is one and it
\* is truthy, else the session value
get_setting_property(session_settings, current_op_settings, prop) ==
    LET current_op_value == IF current_op_settings # None
                            THEN current_op_settings[prop] ELSE NoValue
    IN  IF current_op_value # NoValue THEN current_op_value ELSE session_settings[prop]

evaluate_to_final_settings(session_settings, current_op_settings) ==
    Settings(get_setting_property(session_settings, current_op_settings, "file_find_mode"),
             get_setting_property(session_settings, current_op_settings,
                                  "duplicate_file_handling_mode"),
             get_setting_property(session_settings, current_op_settings,
                                  "search_result_handling_mode"))

\* the nested _get_files calls of an operation: one per folder of the path
\* that is not in the directory cache, and one for the file itself
NestedCalls == {1, 2, 3}
DriveOperations == {"upload_file", "does_file_exist"}

DriveEvent(op, file_find_mode) == [op |-> op, file_find_mode |-> file_find_mode]

InitDrive ==
    /\ \E session_settings \in DriveApiWrapperSessionSettings :
          q = [pc |-> "idle", session_settings |-> session_settings,
               current_op_settings |-> None, final_settings |-> None,
               operation |-> NoValue, op_settings |-> None, get_files_left |-> 0]
    /\ last = DriveEvent("init", NoValue)
    /\ batch = EmptyBatch
    /\ NoStrategy
    /\ NoDisk
    /\ mailbox = << >>
    /\ calls = 0
    /\ cache_strategy_obj = NotConstructed
    /\ fs_threads_dir = FALSE
    /\ conversion = IdleConversion

DriveFrame ==
    UNCHANGED << batch, strategyVars, diskVars, mailbox, calls, setupVars >>

\* wrapper of upload_file / does_file_exist up to the call of the operation:
\* op_settings is stored and the final settings are evaluated
DriveOperationCalled ==
    /\ q.pc = "idle"
    /\ \E operation \in DriveOperations, n \in NestedCalls :
       \E op_settings \in DriveApiWrapperSingleOperationSettings :
          /\ q' = [q EXCEPT !.pc = "running", !.operation = operation,
                            !.op_settings = op_settings,
                            !.current_op_settings = op_settings,
                            !.final_settings =
                                evaluate_to_final_settings(q.session_settings, op_settings),
                            !.get_files_left = n]
          /\ last' = DriveEvent(operation, NoValue)
    /\ DriveFrame

\* a nested call of the decorated _get_files, without op_settings: the
\* wrapper evaluates the final settings again, _get_files builds its query
\* from final_settings.file_find_mode, and the wrapper resets
\* current_op_settings on the way out
DriveGetFiles ==
    /\ q.pc = "running"
    /\ q.get_files_left > 0
    /\ LET final_settings ==
               evaluate_to_final_settings(q.session_settings, q.current_op_settings)
       IN  /\ q' = [q EXCEPT !.final_settings = final_settings,
                             !.current_op_settings = None,
                             !.get_files_left = @ - 1]
           /\ last' = DriveEvent("_get_files", final_settings.file_find_mode)
    /\ DriveFrame

\* the rest of the operation (upload_file reads
\* final_settings.duplicate_file_handling_mode) and the wrapper's reset
DriveOperationReturns ==
    /\ q.pc = "running"
    /\ q.get_files_left = 0
    /\ q' = [q EXCEPT !.pc = "idle", !.current_op_settings = None]
    /\ last' = DriveEvent("return", NoValue)
    /\ DriveFrame

NextDrive ==
    \/ DriveOperationCalled
    \/ DriveGetFiles
    \/ DriveOperationReturns

SpecDrive == InitDrive /\ [][NextDrive]_vars

(***************************************************************************)
(* C39: the op_settings passed to a decorated public operation govern the  *)
(* whole operation: at every step of it, after each nested _get_files call *)
(* too, the final settings are the ones evaluated from its op_settings     *)
(* over the session settings, and current_op_settings is reset to None     *)
(* only when the outermost operation finishes.                             *)
(***************************************************************************)
C39_OpSettingsGovernOperation ==
    q.pc = "running" =>
        /\ q.final_settings = evaluate_to_final_settings(q.session_settings, q.op_settings)
        /\ q.current_op_settings = q.op_settings
        /\ last.op = "_get_files" =>
              last.file_find_mode =
                  evaluate_to_final_settings(q.session_settings, q.op_settings).file_find_mode

====
